---- MODULE Spec2Model ----
(***************************************************************************)
(* Network-monitoring pipeline: the bandwidth calculator of                *)
(* src/src/network_monitor.py, the alert dispatch gate of                  *)
(* src/src/alert_manager.py and the JSON persistence store of              *)
(* src/src/data_logger.py, driven by the three loops of src/main.py.       *)
(*                                                                         *)
(* Each component has its own specification over the shared variables:     *)
(*   BwSpec     NetworkMonitor.calculate_bandwidth_usage                   *)
(*   Spec       AlertManager called from the three monitoring loops        *)
(*   StoreSpec  DataLogger's alert dataset written by the three loops      *)
(***************************************************************************)
EXTENDS Integers, Sequences, FiniteSets, Bags, TLC

VARIABLES
    \* ---- NetworkMonitor (src/src/network_monitor.py) ----
    os_counters,          \* the OS's cumulative counters and wall clock (environment)
    workload,             \* the traffic pattern the environment repeats (BwLongSpec)
    previous_network_io,  \* self.previous_network_io
    bandwidth_history,    \* self.bandwidth_history
    bw_result,            \* last value returned by calculate_bandwidth_usage
    bw_last,              \* how the last call ended: "none", "first", "nodt", "rate"
    bw_calls,             \* number of calls made
    bw_pc,                \* the network loop's next step: "compute" or "detect"
    bw_anomalies,         \* what detect_anomalies returned for the last sample
    bw_appended           \* every reading ever appended to the history, in order

VARIABLES
    now                   \* the wall clock, in seconds (datetime.now())

VARIABLES
    \* ---- DataLogger (src/src/data_logger.py), the alert dataset ----
    alert_data_file,      \* content of data/alert_data.json
    st_pc,                \* per loop: where it is in log_alert_data
    st_loaded,            \* per loop: what _load_data_file returned
    st_new,               \* per loop: the records this call appends
    st_data,              \* per loop: the local list 'data' about to be saved
    st_result,            \* the last return of log_alert_data: None or [loop, ok]
    st_seen,              \* the file state the most recent load found
    st_created,           \* number of records created so far
    st_ok,                \* bag of the records of every append that returned True
    st_overlap,           \* some append ran while another was between load and save
    st_failed,            \* some append returned False
    st_readfail,          \* per loop: the load of this append found a file it could not parse
    q_result              \* the last return of get_alert_history, with its arguments

VARIABLES
    \* ---- AlertManager (src/src/alert_manager.py) ----
    recipients,           \* self.recipients
    last_alert_times,     \* self.last_alert_times: alert_type -> None or a time
    active_alerts,        \* self.active_alerts
    am_pc,                \* per loop: where it is in send_all_alerts
    am_queue,             \* per loop: the alerts of the batch not yet handled
    am_results,           \* per loop: the dict 'results' of send_all_alerts
    am_cur,               \* per loop: clock readings of the send in progress
    am_batch,             \* per loop: size of the batch, and how many of its
                          \*   alerts were suppressed / failed in the transport
    am_log                \* per loop: every finished send_email_alert call, in order

bwVars == << os_counters, workload, previous_network_io, bandwidth_history,
             bw_result, bw_last, bw_calls, bw_pc, bw_anomalies, bw_appended >>

storeVars == << alert_data_file, st_pc, st_loaded, st_new, st_data, st_result,
                st_seen, st_created, st_ok, st_overlap, st_failed, st_readfail,
                q_result >>

VARIABLES
    \* ---- one classifier call on one sample (ClassifySpec) ----
    cl_sample,            \* None, or the sample the classifier was called on
    cl_alerts             \* the list the classifier returned

VARIABLES
    \* ---- the three loops of NetworkMonitoringSystem (src/main.py) ----
    running,              \* self.running
    lp_env,               \* per loop: what its calls do: "ok", "slow" (a call may
                          \*   not return) or "failing" (a call may raise)
    lp_pc,                \* per loop: the statement its thread is at
    lp_trace,             \* per loop: the calls of the current tick that returned
    lp_alerts,            \* per loop: the list 'alerts' of the current tick
    lp_persisted,         \* per loop: the alerts handed to log_alert_data in this tick
    lp_attempted          \* per loop: the send attempts of this tick, with their outcome

VARIABLES
    \* ---- DataLogger.export_data and the other three datasets ----
    network_data_file,    \* content of data/network_data.json
    system_data_file,     \* content of data/system_data.json
    device_data_file,     \* content of data/device_data.json
    export_file,          \* content of the file export_data writes: None or the bundle
    ex_result             \* None, or the arguments and the return of the last export_data

gateVars == << recipients, last_alert_times, active_alerts, am_pc, am_queue,
               am_results, am_cur, am_batch, am_log >>

classVars == << cl_sample, cl_alerts >>

loopVars == << running, lp_env, lp_pc, lp_trace, lp_alerts, lp_persisted,
               lp_attempted >>

exportVars == << network_data_file, system_data_file, device_data_file,
                 export_file, ex_result >>

vars == << now, bwVars, storeVars, gateVars, classVars, loopVars, exportVars >>

\* Python's None, and a value that is present: an optional is a sequence of
\* length 0 or 1.
None == << >>

Some(x) == << x >>

Get(o) == o[1]

(***************************************************************************)
(* Exact rationals n/d (d > 0, lowest terms) stand for the floats of the   *)
(* code: every rate is a quotient of integers scaled by powers of two.     *)
(***************************************************************************)
Abs(x) == IF x < 0 THEN -x ELSE x

RECURSIVE GCD(_, _)
GCD(a, b) == IF b = 0 THEN a ELSE GCD(b, a % b)

Rat(n, d) == LET g == GCD(Abs(n), d) IN [n |-> n \div g, d |-> d \div g]

RatZero == Rat(0, 1)

RatLess(a, b) == a.n * b.d < b.n * a.d

RatAdd(a, b) == Rat(a.n * b.d + b.n * a.d, a.d * b.d)

\* r * k and r / k for a positive integer k.
RatTimes(r, k) == Rat(r.n * k, r.d)

RatOver(r, k) == Rat(r.n, r.d * k)

(***************************************************************************)
(* Each specification moves one component and leaves the others at rest.   *)
(***************************************************************************)
BwIdle ==
    /\ os_counters = [bytes_sent |-> 0, bytes_recv |-> 0, timestamp |-> 0]
    /\ workload = << >>
    /\ previous_network_io = None
    /\ bandwidth_history = << >>
    /\ bw_result = << RatZero, RatZero >>
    /\ bw_last = "none"
    /\ bw_calls = 0
    /\ bw_pc = "compute"
    /\ bw_anomalies = << >>
    /\ bw_appended = << >>

StoreIdle ==
    /\ alert_data_file = [kind |-> "absent", data |-> << >>, size |-> 0]
    /\ st_pc = << >>
    /\ st_loaded = << >>
    /\ st_new = << >>
    /\ st_data = << >>
    /\ st_result = None
    /\ st_seen = "absent"
    /\ st_created = 0
    /\ st_ok = EmptyBag
    /\ st_overlap = FALSE
    /\ st_failed = FALSE
    /\ st_readfail = << >>
    /\ q_result = None

GateIdle ==
    /\ recipients = << >>
    /\ last_alert_times = << >>
    /\ active_alerts = << >>
    /\ am_pc = << >>
    /\ am_queue = << >>
    /\ am_results = << >>
    /\ am_cur = << >>
    /\ am_batch = << >>
    /\ am_log = << >>

ClassIdle ==
    /\ cl_sample = << >>
    /\ cl_alerts = << >>

LoopIdle ==
    /\ running = FALSE
    /\ lp_env = << >>
    /\ lp_pc = << >>
    /\ lp_trace = << >>
    /\ lp_alerts = << >>
    /\ lp_persisted = << >>
    /\ lp_attempted = << >>

ExportIdle ==
    /\ network_data_file = << >>
    /\ system_data_file = << >>
    /\ device_data_file = << >>
    /\ export_file = << >>
    /\ ex_result = << >>

(***************************************************************************)
(* Bounds of the bandwidth model.                                          *)
(***************************************************************************)
\* Calls explored with every step free (BwSpec).
MaxBwCalls == 4
\* Calls explored along one repeated traffic pattern (BwLongSpec).
MaxLongCalls == 102

\* Bytes that make one megabit: 1024 * 1024 / 8.
BytesPerMbit == 131072

\* The literal 100 of network_monitor.py:90.
HistoryCap == 100

\* Config default (src/src/config.py), the threshold the network loop passes
\* to detect_anomalies and to process_network_alerts.
BANDWIDTH_THRESHOLD_MBPS == 100

\* What happens between two samples: seconds elapsed on the wall clock and
\* bytes added to each counter.  The nominal step is 2 Mbps both ways.
NominalStep == [dt |-> 1, sent |-> 2 * BytesPerMbit, recv |-> 2 * BytesPerMbit]

\* A counter reset: the sent counter falls (an interface went away).
ResetStep == [dt |-> 1, sent |-> -BytesPerMbit, recv |-> 2 * BytesPerMbit]

\* A duplicate tick: the wall clock did not move.
DupStep == [dt |-> 0, sent |-> 2 * BytesPerMbit, recv |-> 2 * BytesPerMbit]

\* The wall clock was set back.
BackStep == [dt |-> -1, sent |-> 2 * BytesPerMbit, recv |-> 2 * BytesPerMbit]

\* A burst of upload over two seconds.
BurstStep == [dt |-> 2, sent |-> 30 * BytesPerMbit, recv |-> 0]

\* Upload above the bandwidth threshold, download exactly at it.
HeavyStep == [dt |-> 1, sent |-> 120 * BytesPerMbit, recv |-> 100 * BytesPerMbit]

\* A second without traffic.
QuietStep == [dt |-> 1, sent |-> 0, recv |-> 0]

\* 7 Mbps up, 12 Mbps down.
ModestStep == [dt |-> 1, sent |-> 7 * BytesPerMbit, recv |-> 12 * BytesPerMbit]

Steps == { NominalStep, ResetStep, DupStep, BackStep, BurstStep, HeavyStep }

\* n times the same step.
Repeat(step, n) == [i \in 1..n |-> step]

\* Traffic patterns of a long run, each repeated from its start.
Workloads ==
    { << NominalStep >>,
      << NominalStep, NominalStep, BurstStep >>,
      << NominalStep, DupStep >>,
      << NominalStep, NominalStep, ResetStep >>,
      << NominalStep, HeavyStep >> \o Repeat(NominalStep, 10)
          \o << ModestStep, BurstStep, HeavyStep >>,
      Repeat(QuietStep, 10) \o << ModestStep, BurstStep >> }

\* Counters and clock the process may find when it starts.
InitialCounters ==
    { [bytes_sent |-> s * BytesPerMbit, bytes_recv |-> r * BytesPerMbit, timestamp |-> t] :
        s \in {2, 5}, r \in {2, 7}, t \in {1, 3} }

\* get_network_stats: the snapshot taken after the environment moved by step.
\* packets_sent/packets_recv are carried by the code but never read by the
\* calculator, so the snapshot keeps the three fields it reads.
get_network_stats(step) ==
    [bytes_sent |-> os_counters.bytes_sent + step.sent,
     bytes_recv |-> os_counters.bytes_recv + step.recv,
     timestamp  |-> os_counters.timestamp + step.dt]

\* A plausible slip: decimal megabits.
Mbps_Decimal(delta_bytes, time_diff) ==
    LET per_sec == Rat(delta_bytes, time_diff)
    IN  Rat(per_sec.n * 8, per_sec.d * (1000 * 1000))

\* (x / time_diff) * 8 / (1024 * 1024)
Mbps(delta_bytes, time_diff) ==
    LET per_sec == Rat(delta_bytes, time_diff)
    IN  Rat(per_sec.n * 8, per_sec.d * (1024 * 1024))

\* A plausible slip: the newest reading is dropped instead of the oldest.
HistoryAppend_DropNewest(hist, h) ==
    LET appended == Append(hist, h)
    IN  IF Len(appended) > HistoryCap THEN SubSeq(appended, 1, HistoryCap) ELSE appended

\* The history after appending reading h: the oldest entry is popped when
\* the length exceeds the cap.
HistoryAppend(hist, h) ==
    LET appended == Append(hist, h)
    IN  IF Len(appended) > HistoryCap THEN Tail(appended) ELSE appended

\* A plausible slip: the first call returns (0, 0) without keeping the snapshot.
FirstCall_NoBaseline(current_stats) ==
    /\ previous_network_io' = None
    /\ bw_result' = << RatZero, RatZero >>
    /\ bw_last' = "first"
    /\ UNCHANGED bandwidth_history

\* No previous snapshot: keep this one, return (0.0, 0.0).
FirstCall(current_stats) ==
    /\ previous_network_io' = Some(current_stats)
    /\ bw_result' = << RatZero, RatZero >>
    /\ bw_last' = "first"
    /\ UNCHANGED bandwidth_history

\* A plausible slip: the rejected snapshot still becomes the baseline.
NoTimeDiff_MovesBaseline ==
    /\ bw_result' = << RatZero, RatZero >>
    /\ bw_last' = "nodt"
    /\ previous_network_io' = Some(os_counters')
    /\ UNCHANGED bandwidth_history

\* time_diff <= 0: return (0.0, 0.0) and touch nothing.
NoTimeDiff ==
    /\ bw_result' = << RatZero, RatZero >>
    /\ bw_last' = "nodt"
    /\ UNCHANGED << previous_network_io, bandwidth_history >>

\* time_diff > 0: compute both rates, move the baseline, append the reading.
RateCall(current_stats, previous, time_diff) ==
    LET upload_mbps ==
            Mbps(current_stats.bytes_sent - previous.bytes_sent, time_diff)
        download_mbps ==
            Mbps(current_stats.bytes_recv - previous.bytes_recv, time_diff)
    IN  /\ previous_network_io' = Some(current_stats)
        /\ bandwidth_history' =
               HistoryAppend(bandwidth_history,
                             [timestamp     |-> current_stats.timestamp,
                              upload_mbps   |-> upload_mbps,
                              download_mbps |-> download_mbps])
        /\ bw_result' = << upload_mbps, download_mbps >>
        /\ bw_last' = "rate"

calculate_bandwidth_usage(current_stats) ==
    IF previous_network_io = None
    THEN FirstCall(current_stats)
    ELSE LET previous == Get(previous_network_io)
             time_diff == current_stats.timestamp - previous.timestamp
         IN  IF time_diff <= 0
             THEN NoTimeDiff
             ELSE RateCall(current_stats, previous, time_diff)

\* One sample of the network loop (main.py:127-128): the environment moves,
\* the snapshot is taken and the bandwidth computed from it.
Sample(step) ==
    /\ bw_pc = "compute"
    /\ bw_pc' = "detect"
    /\ os_counters.bytes_sent + step.sent >= 0
    /\ os_counters.bytes_recv + step.recv >= 0
    /\ os_counters.timestamp + step.dt >= 0
    /\ os_counters' = get_network_stats(step)
    /\ calculate_bandwidth_usage(get_network_stats(step))
    /\ bw_calls' = bw_calls + 1
    /\ bw_appended' = IF bw_last' = "rate"
                      THEN Append(bw_appended, bandwidth_history'[Len(bandwidth_history')])
                      ELSE bw_appended
    /\ UNCHANGED << workload, bw_anomalies, now, storeVars, gateVars, classVars, loopVars, exportVars >>

\* A plausible slip: a rate equal to the threshold is reported as well.
ThresholdAnomalies_AtLeast(upload_mbps, download_mbps, threshold) ==
    (IF ~RatLess(upload_mbps, Rat(threshold, 1))
     THEN << << "High upload traffic", upload_mbps, threshold >> >> ELSE << >>)
    \o (IF ~RatLess(download_mbps, Rat(threshold, 1))
        THEN << << "High download traffic", download_mbps, threshold >> >> ELSE << >>)

\* The threshold checks of detect_anomalies: one description per direction.
ThresholdAnomalies(upload_mbps, download_mbps, threshold) ==
    (IF RatLess(Rat(threshold, 1), upload_mbps)
     THEN << << "High upload traffic", upload_mbps, threshold >> >> ELSE << >>)
    \o (IF RatLess(Rat(threshold, 1), download_mbps)
        THEN << << "High download traffic", download_mbps, threshold >> >> ELSE << >>)

\* sum(h[field] for h in hist)
RECURSIVE SumOf(_, _)
SumOf(hist, field) ==
    IF hist = << >> THEN RatZero
    ELSE RatAdd(Head(hist)[field], SumOf(Tail(hist), field))

\* self.bandwidth_history[-10:]
LastTen(hist) ==
    IF Len(hist) <= 10 THEN hist ELSE SubSeq(hist, Len(hist) - 9, Len(hist))

\* A plausible slip: the 10 Mbps floor is left out.
SpikeAnomalies_NoFloor(upload_mbps, download_mbps, hist) ==
    IF Len(hist) >= 10
    THEN LET recent_avg_upload   == RatOver(SumOf(LastTen(hist), "upload_mbps"), 10)
             recent_avg_download == RatOver(SumOf(LastTen(hist), "download_mbps"), 10)
         IN  (IF RatLess(RatTimes(recent_avg_upload, 3), upload_mbps)
              THEN << << "Upload spike detected", upload_mbps, recent_avg_upload >> >>
              ELSE << >>)
             \o (IF RatLess(RatTimes(recent_avg_download, 3), download_mbps)
                 THEN << << "Download spike detected", download_mbps, recent_avg_download >> >>
                 ELSE << >>)
    ELSE << >>

\* The spike checks of detect_anomalies, made once ten readings are stored.
SpikeAnomalies(upload_mbps, download_mbps, hist) ==
    IF Len(hist) >= 10
    THEN LET recent_avg_upload   == RatOver(SumOf(LastTen(hist), "upload_mbps"), 10)
             recent_avg_download == RatOver(SumOf(LastTen(hist), "download_mbps"), 10)
         IN  (IF /\ RatLess(RatTimes(recent_avg_upload, 3), upload_mbps)
                 /\ RatLess(Rat(10, 1), upload_mbps)
              THEN << << "Upload spike detected", upload_mbps, recent_avg_upload >> >>
              ELSE << >>)
             \o (IF /\ RatLess(RatTimes(recent_avg_download, 3), download_mbps)
                    /\ RatLess(Rat(10, 1), download_mbps)
                 THEN << << "Download spike detected", download_mbps, recent_avg_download >> >>
                 ELSE << >>)
    ELSE << >>

detect_anomalies(upload_mbps, download_mbps, threshold) ==
    ThresholdAnomalies(upload_mbps, download_mbps, threshold)
    \o SpikeAnomalies(upload_mbps, download_mbps, bandwidth_history)

\* A plausible slip: detect keeps only the readings it averaged.
HistoryAfterDetect_Trimmed == LastTen(bandwidth_history)

\* detect_anomalies assigns to no attribute of the monitor.
HistoryAfterDetect == bandwidth_history

\* The network loop's next statement (main.py:131-133): detect_anomalies on
\* the rates just computed.
Detect ==
    /\ bw_pc = "detect"
    /\ bw_pc' = "compute"
    /\ bw_anomalies' = detect_anomalies(bw_result[1], bw_result[2],
                                        BANDWIDTH_THRESHOLD_MBPS)
    /\ bandwidth_history' = HistoryAfterDetect
    /\ UNCHANGED << os_counters, workload, previous_network_io, bw_result, bw_last,
                    bw_calls, bw_appended, now, storeVars, gateVars, classVars, loopVars, exportVars >>

\* Any step may come next.
FreeSample ==
    /\ bw_calls < MaxBwCalls
    /\ \E step \in Steps : Sample(step)

\* The next step of the repeated traffic pattern.
WorkloadSample ==
    /\ bw_calls < MaxLongCalls
    /\ Sample(workload[(bw_calls % Len(workload)) + 1])

BwInit ==
    /\ os_counters \in InitialCounters
    /\ workload = << NominalStep >>
    /\ previous_network_io = None
    /\ bandwidth_history = << >>
    /\ bw_result = << RatZero, RatZero >>
    /\ bw_last = "none"
    /\ bw_calls = 0
    /\ bw_pc = "compute"
    /\ bw_anomalies = << >>
    /\ bw_appended = << >>
    /\ now = 0
    /\ StoreIdle
    /\ GateIdle
    /\ ClassIdle
    /\ LoopIdle
    /\ ExportIdle

BwLongInit ==
    /\ os_counters \in InitialCounters
    /\ workload \in Workloads
    /\ previous_network_io = None
    /\ bandwidth_history = << >>
    /\ bw_result = << RatZero, RatZero >>
    /\ bw_last = "none"
    /\ bw_calls = 0
    /\ bw_pc = "compute"
    /\ bw_anomalies = << >>
    /\ bw_appended = << >>
    /\ now = 0
    /\ StoreIdle
    /\ GateIdle
    /\ ClassIdle
    /\ LoopIdle
    /\ ExportIdle

BwNext == FreeSample \/ Detect

BwLongNext == WorkloadSample \/ Detect

BwSpec == BwInit /\ [][BwNext]_vars

BwLongSpec == BwLongInit /\ [][BwLongNext]_vars

(***************************************************************************)
(* Claims about the bandwidth calculator.                                  *)
(***************************************************************************)
RatNonNeg(r) == r.n >= 0

ReadingNonNeg(h) == RatNonNeg(h.upload_mbps) /\ RatNonNeg(h.download_mbps)

\* C8: every reading returned by calculate_bandwidth_usage and every reading
\* stored in bandwidth_history has upload_mbps >= 0 and download_mbps >= 0,
\* also after a snapshot whose counters are lower than the previous one.
C8_ReadingsNeverNegative ==
    /\ RatNonNeg(bw_result[1])
    /\ RatNonNeg(bw_result[2])
    /\ \A i \in DOMAIN bandwidth_history : ReadingNonNeg(bandwidth_history[i])

Min(a, b) == IF a < b THEN a ELSE b

\* C9: bandwidth_history never has more than 100 entries and is always the
\* most recent readings in arrival order, so the entry dropped when a 101st
\* reading arrives is the oldest one.
C9_HistoryIsRecentWindow ==
    /\ Len(bandwidth_history) <= HistoryCap
    /\ Len(bandwidth_history) = Min(Len(bw_appended), HistoryCap)
    /\ bandwidth_history =
           SubSeq(bw_appended,
                  Len(bw_appended) - Len(bandwidth_history) + 1,
                  Len(bw_appended))

\* A 101st reading has been appended (and one entry dropped).
C9_Witness ==
    /\ Len(bw_appended) > HistoryCap
    /\ Len(bandwidth_history) = HistoryCap

\* C10: the very first call returns (0, 0) whatever the snapshot, stores that
\* snapshot as the baseline and appends nothing to the history.
C10_FirstCallBaseline ==
    bw_calls = 1 =>
        /\ bw_result = << RatZero, RatZero >>
        /\ previous_network_io = Some(os_counters)
        /\ bandwidth_history = << >>

\* A first call was made on a snapshot taken after a burst.
C10_Witness ==
    /\ bw_calls = 1
    /\ bw_last = "first"
    /\ os_counters.bytes_sent = 35 * BytesPerMbit

\* A call of calculate_bandwidth_usage is made in this step, with a baseline.
CallWithBaseline == bw_calls' = bw_calls + 1 /\ previous_network_io # None

\* time_diff of the call made in this step.
CallTimeDiff == os_counters'.timestamp - Get(previous_network_io).timestamp

\* C11: a call whose snapshot is not later than the baseline returns (0, 0)
\* and changes neither the baseline nor the history; the next call with a
\* later snapshot is measured against that same baseline.
C11_NoTimeDiffChangesNothing ==
    [][ /\ (CallWithBaseline /\ CallTimeDiff <= 0) =>
              /\ bw_result' = << RatZero, RatZero >>
              /\ previous_network_io' = previous_network_io
              /\ bandwidth_history' = bandwidth_history
        /\ (CallWithBaseline /\ CallTimeDiff > 0 /\ bw_last = "nodt") =>
              bw_result'[1] =
                  Rat((os_counters'.bytes_sent - Get(previous_network_io).bytes_sent) * 8,
                      1024 * 1024 * CallTimeDiff)
      ]_vars

\* A call was just rejected for its time difference: the snapshot it was given
\* differs from the baseline and is not later than it.
C11_Witness ==
    /\ bw_last = "nodt"
    /\ previous_network_io # None
    /\ os_counters # Get(previous_network_io)
    /\ os_counters.timestamp <= Get(previous_network_io).timestamp
    /\ bandwidth_history # << >>

\* r + r, the double of a rate.
RatDouble(r) == Rat(2 * r.n, r.d)

\* C12: with dt > 0 the call returns, for each direction, exactly
\* (delta_bytes * 8) / (1024 * 1024 * dt), and twice the delta at the same dt
\* gives twice the rate.
C12_RateFormula ==
    [][ (CallWithBaseline /\ CallTimeDiff > 0) =>
            LET previous   == Get(previous_network_io)
                delta_sent == os_counters'.bytes_sent - previous.bytes_sent
                delta_recv == os_counters'.bytes_recv - previous.bytes_recv
            IN  /\ bw_result'[1] = Rat(delta_sent * 8, 1024 * 1024 * CallTimeDiff)
                /\ bw_result'[2] = Rat(delta_recv * 8, 1024 * 1024 * CallTimeDiff)
                /\ Mbps(2 * delta_sent, CallTimeDiff) = RatDouble(bw_result'[1])
                /\ Mbps(2 * delta_recv, CallTimeDiff) = RatDouble(bw_result'[2])
      ]_vars

\* A rate over two seconds was returned: 30 megabits up in 2 s, nothing down.
C12_Witness ==
    /\ bw_last = "rate"
    /\ bw_result = << Rat(15, 1), RatZero >>

\* detect_anomalies has returned for the last sample taken.
Detected == bw_calls > 0 /\ bw_pc = "compute"

\* How many descriptions of one kind the last detect call returned.
Emitted(kind) == Cardinality({ i \in DOMAIN bw_anomalies : bw_anomalies[i][1] = kind })

\* rate > 3 * (sum of the last ten readings of the field) / 10, and rate > 10,
\* with ten readings stored.
SpikeDue(rate, field) ==
    /\ Len(bandwidth_history) >= 10
    /\ RatLess(RatTimes(SumOf(LastTen(bandwidth_history), field), 3), RatTimes(rate, 10))
    /\ RatLess(Rat(10, 1), rate)

\* C13: detect_anomalies returns a spike description for a direction exactly
\* when the history holds at least ten readings, the rate is above three times
\* the mean of the last ten readings of that direction, and the rate is above
\* 10 Mbps; each direction is decided on its own.
C13_SpikeIff ==
    Detected =>
        /\ Emitted("Upload spike detected") =
               (IF SpikeDue(bw_result[1], "upload_mbps") THEN 1 ELSE 0)
        /\ Emitted("Download spike detected") =
               (IF SpikeDue(bw_result[2], "download_mbps") THEN 1 ELSE 0)

\* After readings of 2 Mbps and one of 7, a reading of 15 Mbps up and 0 down: a
\* spike is reported for the upload only.
C13_Witness ==
    /\ Detected
    /\ Len(bandwidth_history) >= 10
    /\ bw_result = << Rat(15, 1), RatZero >>
    /\ Emitted("Upload spike detected") = 1
    /\ Emitted("Download spike detected") = 0

\* C14: detect_anomalies returns one threshold description for each direction
\* whose rate is above the threshold and none for a rate at or below it,
\* whatever the length of the history.
C14_ThresholdIff ==
    Detected =>
        /\ Emitted("High upload traffic") =
               (IF RatLess(Rat(BANDWIDTH_THRESHOLD_MBPS, 1), bw_result[1]) THEN 1 ELSE 0)
        /\ Emitted("High download traffic") =
               (IF RatLess(Rat(BANDWIDTH_THRESHOLD_MBPS, 1), bw_result[2]) THEN 1 ELSE 0)

\* Upload above the threshold and download exactly at it, with a history too
\* short for the spike check: one description, for the upload.
C14_Witness ==
    /\ Detected
    /\ Len(bandwidth_history) < 10
    /\ bw_result = << Rat(120, 1), Rat(BANDWIDTH_THRESHOLD_MBPS, 1) >>
    /\ Emitted("High upload traffic") = 1
    /\ Emitted("High download traffic") = 0

\* C15: a detect_anomalies call leaves the baseline snapshot and the history
\* as they were.
C15_DetectChangesNothing ==
    [][ (bw_pc = "detect" /\ bw_pc' = "compute") =>
            /\ previous_network_io' = previous_network_io
            /\ bandwidth_history' = bandwidth_history
      ]_vars

\* detect_anomalies has read more readings than it averages and has returned
\* descriptions.
C15_Witness ==
    /\ Detected
    /\ Len(bandwidth_history) > 10
    /\ bw_anomalies # << >>
    /\ previous_network_io = Some(os_counters)

(***************************************************************************)
(* DataLogger: the alert dataset data/alert_data.json, appended to by the   *)
(* three monitoring loops (main.py:148, 199, 255) and read by queries.      *)
(***************************************************************************)
\* The three loop threads of main.py.
Loops == {"network", "system", "device"}

\* Retention cap passed as max_records (10000 by default), scaled down.
max_records == 2
\* Records created over a run.
MaxStoreRecords == 3

Range(seq) == { seq[i] : i \in DOMAIN seq }

Count(seq, r) == Cardinality({ i \in DOMAIN seq : seq[i] = r })

\* datetime.isoformat(): fixed-width, zero-padded decimal fields (four digits
\* here), compared as strings by the sort and parsed back by the queries.
isoformat(t) == << (t \div 1000) % 10, (t \div 100) % 10, (t \div 10) % 10, t % 10 >>

fromisoformat(str) == str[1] * 1000 + str[2] * 100 + str[3] * 10 + str[4]

\* Python's str < str: lexicographic, a proper prefix is smaller.
RECURSIVE StrLess(_, _)
StrLess(a, b) ==
    IF b = << >> THEN FALSE
    ELSE IF a = << >> THEN TRUE
    ELSE IF Head(a) # Head(b) THEN Head(a) < Head(b)
    ELSE StrLess(Tail(a), Tail(b))

\* The alert types each loop creates, in the order its classifier appends
\* them, with the text that tells two alerts of one tick apart.
LoopAlerts(l) ==
    CASE l = "network" ->
             << [alert_type |-> "High Upload Bandwidth",   message |-> "upload"],
                [alert_type |-> "High Download Bandwidth", message |-> "download"] >>
      [] l = "system" ->
             << [alert_type |-> "High CPU Usage",    message |-> "cpu"],
                [alert_type |-> "High Memory Usage", message |-> "memory"] >>
      [] l = "device" ->
             << [alert_type |-> "Device Unreachable", message |-> "8.8.8.8"],
                [alert_type |-> "Device Unreachable", message |-> "1.1.1.1"] >>

\* The record log_alert_data builds from an alert created at time t
\* (severity and resolved are carried along and never read by the store).
AlertRecord(a, t) ==
    [timestamp |-> isoformat(t), alert_type |-> a.alert_type, message |-> a.message]

\* _load_data_file: the parsed list, [] when the file is absent, and [] when
\* json.load raises on an empty or garbled file.
_load_data_file(file) == IF file.kind = "json" THEN file.data ELSE << >>

\* list.sort(key=timestamp, reverse=True): stable, descending.
InsertDesc(sorted, r) ==
    LET k == Cardinality({ i \in DOMAIN sorted :
                             ~StrLess(sorted[i].timestamp, r.timestamp) })
    IN  SubSeq(sorted, 1, k) \o << r >> \o SubSeq(sorted, k + 1, Len(sorted))

RECURSIVE SortDesc(_)
SortDesc(data) ==
    IF data = << >> THEN << >>
    ELSE InsertDesc(SortDesc(SubSeq(data, 1, Len(data) - 1)), data[Len(data)])

\* A plausible slip: the trim keeps the tail of the descending sort.
_cleanup_old_data_KeepOldest(data, cap) ==
    IF Len(data) > cap
    THEN SubSeq(SortDesc(data), Len(data) - cap + 1, Len(data))
    ELSE data

_cleanup_old_data(data, cap) ==
    IF Len(data) > cap
    THEN SubSeq(SortDesc(data), 1, cap)
    ELSE data

SeqToBag(seq) == [r \in Range(seq) |-> Count(seq, r)]

\* The classifier of loop l creates a batch of alerts (create_alert stamps
\* each with datetime.now()); main.py then calls log_alert_data.  The wall
\* clock is read here only, so it is advanced here: by nothing (the same
\* second as the batch before) or by one second.
StoreClassify(l) ==
    /\ st_pc[l] = "idle"
    /\ \E k \in 1..2, elapsed \in 0..1 :
         /\ st_created + k <= MaxStoreRecords
         /\ st_created' = st_created + k
         /\ now' = now + elapsed
         /\ st_new' = [st_new EXCEPT ![l] =
                          [i \in 1..k |-> AlertRecord(LoopAlerts(l)[i], now')]]
    /\ st_pc' = [st_pc EXCEPT ![l] = "created"]
    /\ UNCHANGED << st_readfail, alert_data_file, st_loaded, st_data, st_result, st_seen,
                    st_ok, st_overlap, st_failed, q_result, bwVars,
                    gateVars, classVars, loopVars, exportVars >>

\* log_alert_data up to the call of _save_data_file: load, append, trim.
LogAlertLoad(l) ==
    /\ st_pc[l] = "created"
    /\ st_loaded' = [st_loaded EXCEPT ![l] = _load_data_file(alert_data_file)]
    /\ st_seen' = alert_data_file.kind
    /\ st_data' = [st_data EXCEPT ![l] =
                      _cleanup_old_data(_load_data_file(alert_data_file) \o st_new[l],
                                        max_records)]
    /\ st_overlap' = (st_overlap \/ \E m \in Loops \ {l} : st_pc[m] \in {"open", "write"})
    /\ st_readfail' = [st_readfail EXCEPT ![l] = alert_data_file.kind \in {"empty", "garbled"}]
    /\ st_pc' = [st_pc EXCEPT ![l] = "open"]
    /\ UNCHANGED << now, alert_data_file, st_new, st_result, st_created, st_ok,
                    st_failed, q_result, bwVars,
                    gateVars, classVars, loopVars, exportVars >>

\* _save_data_file: open(filename, 'w') truncates the file.
SaveOpen(l) ==
    /\ st_pc[l] = "open"
    /\ alert_data_file' = [kind |-> "empty", data |-> << >>, size |-> 0]
    /\ st_pc' = [st_pc EXCEPT ![l] = "write"]
    /\ UNCHANGED << st_readfail, now, st_loaded, st_new, st_data, st_result, st_seen,
                    st_created, st_ok, st_overlap, st_failed, q_result, bwVars,
                    gateVars, classVars, loopVars, exportVars >>

\* The call returns ok: the locals of log_alert_data are gone.
StoreReturn(l, ok) ==
    /\ st_result' = Some([loop |-> l, ok |-> ok])
    /\ st_failed' = (st_failed \/ ~ok)
    /\ st_ok' = IF ok THEN st_ok (+) SeqToBag(st_new[l]) ELSE st_ok
    /\ st_loaded' = [st_loaded EXCEPT ![l] = << >>]
    /\ st_new' = [st_new EXCEPT ![l] = << >>]
    /\ st_data' = [st_data EXCEPT ![l] = << >>]
    /\ st_readfail' = [st_readfail EXCEPT ![l] = FALSE]
    /\ st_pc' = [st_pc EXCEPT ![l] = "idle"]

\* _save_data_file: open raises (permissions, missing directory); False.
SaveOpenFail(l) ==
    /\ st_pc[l] = "open"
    /\ StoreReturn(l, FALSE)
    /\ UNCHANGED << now, alert_data_file, st_seen, st_created, st_overlap, q_result, bwVars,
                    gateVars, classVars, loopVars, exportVars >>

\* What the file holds once this writer's text lands at offset 0 of what is
\* there: its own list, unless a longer text written by another writer since
\* the truncation sticks out behind it (sizes counted in records).
Overlay(file, data) ==
    IF file.size > Len(data)
    THEN [kind |-> "garbled", data |-> << >>, size |-> file.size]
    ELSE [kind |-> "json", data |-> data, size |-> Len(data)]

\* _save_data_file: json.dump and close flush the text; True.
SaveWrite(l) ==
    /\ st_pc[l] = "write"
    /\ alert_data_file' = Overlay(alert_data_file, st_data[l])
    /\ StoreReturn(l, TRUE)
    /\ UNCHANGED << now, st_seen, st_created, st_overlap, q_result, bwVars,
                    gateVars, classVars, loopVars, exportVars >>

\* _save_data_file: the write raises (disk full) before anything is flushed;
\* the file stays as it is, truncated; False.
SaveWriteFail(l) ==
    /\ st_pc[l] = "write"
    /\ StoreReturn(l, FALSE)
    /\ UNCHANGED << now, alert_data_file, st_seen, st_created, st_overlap, q_result, bwVars,
                    gateVars, classVars, loopVars, exportVars >>

\* get_alert_history by a reader: its _load_data_file.
Query ==
    /\ st_seen' = alert_data_file.kind
    /\ UNCHANGED << st_readfail, now, alert_data_file, st_pc, st_loaded, st_new, st_data,
                    st_result, st_created, st_ok, st_overlap, st_failed, q_result, bwVars,
                    gateVars, classVars, loopVars, exportVars >>

\* The dataset does not exist yet; the clock stands just before a carry of
\* the timestamp's digits.
StoreInit ==
    /\ now = 9
    /\ alert_data_file = [kind |-> "absent", data |-> << >>, size |-> 0]
    /\ st_pc = [l \in Loops |-> "idle"]
    /\ st_loaded = [l \in Loops |-> << >>]
    /\ st_new = [l \in Loops |-> << >>]
    /\ st_data = [l \in Loops |-> << >>]
    /\ st_result = None
    /\ st_seen = "absent"
    /\ st_created = 0
    /\ st_ok = EmptyBag
    /\ st_overlap = FALSE
    /\ st_failed = FALSE
    /\ st_readfail = [l \in Loops |-> FALSE]
    /\ q_result = None
    /\ BwIdle
    /\ GateIdle
    /\ ClassIdle
    /\ LoopIdle
    /\ ExportIdle

StoreNext ==
    \/ Query
    \/ \E l \in Loops :
         \/ StoreClassify(l)
         \/ LogAlertLoad(l)
         \/ SaveOpen(l)
         \/ SaveOpenFail(l)
         \/ SaveWrite(l)
         \/ SaveWriteFail(l)

StoreSpec == StoreInit /\ [][StoreNext]_vars

(***************************************************************************)
(* Claims about the persistence store.                                     *)
(***************************************************************************)
StoreAllIdle == \A l \in Loops : st_pc[l] = "idle"

\* Every copy of every record of the bag is in the list.
HoldsAll(data, bag) ==
    \A r \in BagToSet(bag) : Count(data, r) >= CopiesIn(r, bag)

\* C5: under concurrent appends to the alert dataset no update is lost: once
\* all the appends have returned success, the dataset contains every record
\* any of them appended (as long as the retention cap is not exceeded).
C5_NoLostUpdate ==
    (StoreAllIdle /\ ~st_failed /\ BagCardinality(st_ok) <= max_records)
        => HoldsAll(_load_data_file(alert_data_file), st_ok)

\* C6: the dataset is written back atomically: no load, by a query or by an
\* append, ever finds the file truncated or partially written.
C6_NoPartialWriteSeen == st_seen \notin {"empty", "garbled"}

\* kept is n of the records of all (as bags), and no record left out is
\* newer than a record kept.
NewestKept(kept, all, n) ==
    /\ Len(kept) = n
    /\ \A r \in Range(kept) : Count(kept, r) <= Count(all, r)
    /\ \A e \in { r \in Range(all) : Count(all, r) > Count(kept, r) } :
         \A k \in Range(kept) :
            fromisoformat(k.timestamp) >= fromisoformat(e.timestamp)

BagToSeq(bag) ==
    LET RECURSIVE Flat(_)
        Flat(rs) == IF rs = {} THEN << >>
                    ELSE LET r == CHOOSE x \in rs : TRUE
                         IN  [i \in 1..CopiesIn(r, bag) |-> r] \o Flat(rs \ {r})
    IN  Flat(BagToSet(bag))

\* C7: what an append saves holds at most max_records records, and when the
\* trim evicted records the ones kept are exactly the max_records newest by
\* timestamp of those loaded and added; the file never holds more than the
\* cap, and after appends that ran one after the other and all succeeded it
\* holds the newest max_records of all the records ever appended.
C7_RetentionKeepsNewest ==
    /\ alert_data_file.kind = "json" => Len(alert_data_file.data) <= max_records
    /\ \A l \in Loops :
         st_pc[l] \in {"open", "write"} =>
            LET all == st_loaded[l] \o st_new[l]
            IN  /\ Len(st_data[l]) <= max_records
                /\ Len(all) > max_records => NewestKept(st_data[l], all, max_records)
                /\ Len(all) <= max_records => st_data[l] = all
    /\ (StoreAllIdle /\ ~st_overlap /\ ~st_failed) =>
            NewestKept(_load_data_file(alert_data_file), BagToSeq(st_ok),
                       Min(BagCardinality(st_ok), max_records))

\* After sequential, successful appends of more records than the cap, the
\* file holds the cap-many newest and a record was evicted whose timestamp
\* is older than a kept one.
C7_Witness ==
    /\ StoreAllIdle /\ ~st_overlap /\ ~st_failed
    /\ BagCardinality(st_ok) > max_records
    /\ alert_data_file.kind = "json"
    /\ Len(alert_data_file.data) = max_records
    /\ \E r \in BagToSet(st_ok) :
         /\ Count(alert_data_file.data, r) = 0
         /\ \E k \in Range(alert_data_file.data) :
              fromisoformat(k.timestamp) > fromisoformat(r.timestamp)

\* C20: an append that could not read its dataset, or could not write it,
\* returns False.  (No exception leaves log_alert_data: every return of the
\* call is a value.)  The write side is the two failing save actions; this is
\* the read side.
C20_FailedReadReportsFailure ==
    [][ \A l \in Loops :
            (st_pc[l] = "write" /\ st_pc'[l] = "idle" /\ st_readfail[l])
            => st_result' = Some([loop |-> l, ok |-> FALSE])
      ]_vars

(***************************************************************************)
(* DataLogger: the range query get_alert_history over a stored dataset.     *)
(***************************************************************************)
\* Records in the stored dataset.
MaxQueryRecords == 3

\* Creation times of the stored records, in seconds.
QueryTimes == {0, 3600, 3601}

\* The wall clock at the query, and the hours asked for.
QueryNows == {7200, 7201}

QueryHours == {1, 2}

WellFormed(t) == AlertRecord(LoopAlerts("system")[1], t)

\* A record without the key 'timestamp', and one whose timestamp has a
\* character that is no digit (characters are numbers; 10 and above are not
\* digits).
NoTimestamp == [alert_type |-> "High CPU Usage", message |-> "cpu"]

BadTimestamp ==
    [timestamp |-> << 3, 6, 10, 0 >>, alert_type |-> "High CPU Usage", message |-> "cpu"]

QueryRecords == { WellFormed(t) : t \in QueryTimes } \cup { NoTimestamp, BadTimestamp }

Datasets == UNION { [1..n -> QueryRecords] : n \in 0..MaxQueryRecords }

\* datetime.fromisoformat accepts the string.
ParsesAsTime(str) == Len(str) = 4 /\ \A i \in 1..4 : str[i] \in 0..9

\* A plausible slip: a record exactly at the cutoff is left out.
InWindow_Strict(record, cutoff_time) ==
    /\ "timestamp" \in DOMAIN record
    /\ ParsesAsTime(record.timestamp)
    /\ fromisoformat(record.timestamp) > cutoff_time

\* The body of the loop over the records: the record is appended when its
\* timestamp parses and is not before the cutoff; any exception (no such key,
\* no valid date) skips the record.
InWindow(record, cutoff_time) ==
    /\ "timestamp" \in DOMAIN record
    /\ ParsesAsTime(record.timestamp)
    /\ fromisoformat(record.timestamp) >= cutoff_time

\* A plausible slip: no inner try, so one bad record ends the query in the
\* outer except, which returns [].
get_alert_history_Fatal(file, hours) ==
    LET data == _load_data_file(file)
        cutoff_time == now - (hours * 3600)
    IN  IF \E i \in DOMAIN data :
               ~("timestamp" \in DOMAIN data[i] /\ ParsesAsTime(data[i].timestamp))
        THEN << >>
        ELSE SelectSeq(data, LAMBDA record : InWindow(record, cutoff_time))

get_alert_history(file, hours) ==
    LET data == _load_data_file(file)
        cutoff_time == now - (hours * 3600)
    IN  SelectSeq(data, LAMBDA record : InWindow(record, cutoff_time))

\* A reader calls get_alert_history(hours).
GetAlertHistory ==
    /\ \E hours \in QueryHours :
           q_result' = Some([hours   |-> hours,
                             at      |-> now,
                             records |-> get_alert_history(alert_data_file, hours)])
    /\ st_seen' = alert_data_file.kind
    /\ UNCHANGED << now, alert_data_file, st_pc, st_loaded, st_new, st_data, st_result,
                    st_created, st_ok, st_overlap, st_failed, st_readfail, bwVars,
                    gateVars, classVars, loopVars, exportVars >>

\* A dataset written by earlier runs, and no append in progress.
QueryInit ==
    /\ now \in QueryNows
    /\ \E data \in Datasets :
           alert_data_file = [kind |-> "json", data |-> data, size |-> Len(data)]
    /\ st_pc = [l \in Loops |-> "idle"]
    /\ st_loaded = [l \in Loops |-> << >>]
    /\ st_new = [l \in Loops |-> << >>]
    /\ st_data = [l \in Loops |-> << >>]
    /\ st_result = None
    /\ st_seen = "absent"
    /\ st_created = 0
    /\ st_ok = EmptyBag
    /\ st_overlap = FALSE
    /\ st_failed = FALSE
    /\ st_readfail = [l \in Loops |-> FALSE]
    /\ q_result = None
    /\ BwIdle
    /\ GateIdle
    /\ ClassIdle
    /\ LoopIdle
    /\ ExportIdle

QueryNext == GetAlertHistory

QuerySpec == QueryInit /\ [][QueryNext]_vars

(***************************************************************************)
(* Claims about the range query.                                            *)
(***************************************************************************)
\* The cutoff of the query that returned last.
QueryCutoff == Get(q_result).at - Get(q_result).hours * 3600

\* C18: the query returns exactly the stored records stamped at or after now
\* minus the window: each as often as it is stored, a record stamped exactly at
\* the cutoff included, and nothing else.
C18_RangeIsClosedAtCutoff ==
    q_result # None =>
        /\ \A t \in QueryTimes :
               Count(Get(q_result).records, WellFormed(t)) =
                   (IF t >= QueryCutoff THEN Count(alert_data_file.data, WellFormed(t)) ELSE 0)
        /\ Range(Get(q_result).records) \subseteq { WellFormed(t) : t \in QueryTimes }

\* A query whose cutoff is the stamp of one stored record, with an older
\* record stored beside it: the first is returned, the second is not.
C18_Witness ==
    /\ q_result # None
    /\ \E t \in QueryTimes :
           /\ t = QueryCutoff
           /\ WellFormed(t) \in Range(Get(q_result).records)
    /\ \E t \in QueryTimes :
           /\ t < QueryCutoff
           /\ WellFormed(t) \in Range(alert_data_file.data)
           /\ WellFormed(t) \notin Range(Get(q_result).records)

\* C19: over a dataset holding records without a timestamp or with one that
\* does not parse, the query still returns: those records are left out, and
\* every well-formed record inside the window is returned, in stored order.
C19_MalformedSkipped ==
    (q_result # None /\ Range(alert_data_file.data) \cap {NoTimestamp, BadTimestamp} # {}) =>
        /\ NoTimestamp \notin Range(Get(q_result).records)
        /\ BadTimestamp \notin Range(Get(q_result).records)
        /\ Get(q_result).records =
               SelectSeq(alert_data_file.data,
                         LAMBDA r : \E t \in QueryTimes : r = WellFormed(t) /\ t >= QueryCutoff)

\* Both kinds of malformed record are stored around a record inside the
\* window, and the query returned that record.
C19_Witness ==
    /\ q_result # None
    /\ NoTimestamp \in Range(alert_data_file.data)
    /\ BadTimestamp \in Range(alert_data_file.data)
    /\ Get(q_result).records # << >>

(***************************************************************************)
(* AlertManager: the classifiers, the cooldown gate and the batch send,     *)
(* called by the three loops of main.py on one shared object.               *)
(***************************************************************************)
\* Config defaults (src/src/config.py).
CPU_THRESHOLD_PERCENT == 80

MEMORY_THRESHOLD_PERCENT == 85

DISK_THRESHOLD_PERCENT == 90

\* The cooldown the repository's own test configures, in minutes.
cooldown_minutes == 1

\* Alerts created over a run.
MaxAlerts == 3
\* Seconds between two readings of the wall clock, and the last reading.
TickSeconds == 59

MaxNow == 118

AlertTypes ==
    { "High CPU Usage", "High Memory Usage", "High Disk Usage",
      "High Upload Bandwidth", "High Download Bandwidth", "Network Traffic Anomaly",
      "Device Unreachable", "High Latency" }

\* create_alert: the Alert object, stamped with datetime.now().
create_alert(alert_type, message, severity) ==
    [alert_type |-> alert_type, message |-> message, severity |-> severity,
     timestamp |-> now]

\* One conditional create_alert + alerts.append of a classifier.
AlertIf(cond, alert_type, message, severity) ==
    IF cond THEN << create_alert(alert_type, message, severity) >> ELSE << >>

\* A plausible slip: a disk reading equal to the threshold alerts as well.
process_system_alerts_DiskAtLeast(system_stats, thresholds) ==
    AlertIf(system_stats.cpu_percent > thresholds.cpu,
            "High CPU Usage", << "CPU usage is", system_stats.cpu_percent >>,
            IF system_stats.cpu_percent > 90 THEN "high" ELSE "medium")
    \o AlertIf(system_stats.memory_percent > thresholds.memory,
            "High Memory Usage", << "Memory usage is", system_stats.memory_percent >>,
            IF system_stats.memory_percent > 95 THEN "high" ELSE "medium")
    \o AlertIf(system_stats.disk_percent >= thresholds.disk,
            "High Disk Usage", << "Disk usage is", system_stats.disk_percent >>,
            IF system_stats.disk_percent > 95 THEN "critical" ELSE "high")

\* A plausible slip: the memory severity uses the CPU's bound of 90.
process_system_alerts_MemoryBound(system_stats, thresholds) ==
    AlertIf(system_stats.cpu_percent > thresholds.cpu,
            "High CPU Usage", << "CPU usage is", system_stats.cpu_percent >>,
            IF system_stats.cpu_percent > 90 THEN "high" ELSE "medium")
    \o AlertIf(system_stats.memory_percent > thresholds.memory,
            "High Memory Usage", << "Memory usage is", system_stats.memory_percent >>,
            IF system_stats.memory_percent > 90 THEN "high" ELSE "medium")
    \o AlertIf(system_stats.disk_percent > thresholds.disk,
            "High Disk Usage", << "Disk usage is", system_stats.disk_percent >>,
            IF system_stats.disk_percent > 95 THEN "critical" ELSE "high")

process_system_alerts(system_stats, thresholds) ==
    AlertIf(system_stats.cpu_percent > thresholds.cpu,
            "High CPU Usage", << "CPU usage is", system_stats.cpu_percent >>,
            IF system_stats.cpu_percent > 90 THEN "high" ELSE "medium")
    \o AlertIf(system_stats.memory_percent > thresholds.memory,
            "High Memory Usage", << "Memory usage is", system_stats.memory_percent >>,
            IF system_stats.memory_percent > 95 THEN "high" ELSE "medium")
    \o AlertIf(system_stats.disk_percent > thresholds.disk,
            "High Disk Usage", << "Disk usage is", system_stats.disk_percent >>,
            IF system_stats.disk_percent > 95 THEN "critical" ELSE "high")

\* rate > k, and rate > k * 1.5, for a rational rate and an integer k.
RatAbove(rate, k) == rate.n > k * rate.d

\* A plausible slip: the severity bound is reached at 1.5 times the threshold.
RatAboveOneAndHalf_AtLeast(rate, k) == 2 * rate.n >= 3 * k * rate.d

RatAboveOneAndHalf(rate, k) == 2 * rate.n > 3 * k * rate.d

RECURSIVE AnomalyAlerts(_)
AnomalyAlerts(anomalies) ==
    IF anomalies = << >> THEN << >>
    ELSE << create_alert("Network Traffic Anomaly", Head(anomalies), "medium") >>
             \o AnomalyAlerts(Tail(anomalies))

process_network_alerts(upload_mbps, download_mbps, anomalies, threshold) ==
    AlertIf(RatAbove(upload_mbps, threshold),
            "High Upload Bandwidth", << "Upload bandwidth is", upload_mbps >>,
            IF RatAboveOneAndHalf(upload_mbps, threshold) THEN "high" ELSE "medium")
    \o AlertIf(RatAbove(download_mbps, threshold),
            "High Download Bandwidth", << "Download bandwidth is", download_mbps >>,
            IF RatAboveOneAndHalf(download_mbps, threshold) THEN "high" ELSE "medium")
    \o AnomalyAlerts(anomalies)

\* A plausible slip: a response of exactly one second counts as high latency.
RECURSIVE process_device_alerts_AtLeast(_)
process_device_alerts_AtLeast(device_statuses) ==
    IF device_statuses = << >> THEN << >>
    ELSE LET status == Head(device_statuses)
         IN  (IF ~status.is_reachable
              THEN << create_alert("Device Unreachable",
                                   << "Device is not responding to ping",
                                      status.ip_address >>,
                                   "high") >>
              ELSE AlertIf(status.response_time # None /\ Get(status.response_time) # 0
                               /\ Get(status.response_time) >= 1000,
                           "High Latency",
                           << "Device has high latency", status.ip_address >>,
                           "medium"))
             \o process_device_alerts_AtLeast(Tail(device_statuses))

RECURSIVE process_device_alerts(_)
process_device_alerts(device_statuses) ==
    IF device_statuses = << >> THEN << >>
    ELSE LET status == Head(device_statuses)
         IN  (IF ~status.is_reachable
              THEN << create_alert("Device Unreachable",
                                   << "Device is not responding to ping",
                                      status.ip_address >>,
                                   "high") >>
              ELSE AlertIf(status.response_time # None /\ Get(status.response_time) # 0
                               /\ Get(status.response_time) > 1000,
                           "High Latency",
                           << "Device has high latency", status.ip_address >>,
                           "medium"))
             \o process_device_alerts(Tail(device_statuses))

\* What the loops feed the classifiers with.
SystemSamples ==
    { [cpu_percent |-> 85, memory_percent |-> 50, disk_percent |-> 50],
      [cpu_percent |-> 95, memory_percent |-> 50, disk_percent |-> 96] }

NetworkSamples ==
    { [upload_mbps |-> Rat(120, 1), download_mbps |-> Rat(2, 1),
       anomalies |-> << "High upload traffic" >>],
      [upload_mbps |-> Rat(15, 1), download_mbps |-> Rat(2, 1),
       anomalies |-> << "Upload spike detected" >>] }

Unreachable(ip) == [ip_address |-> ip, is_reachable |-> FALSE, response_time |-> None]

Reachable(ip, ms) == [ip_address |-> ip, is_reachable |-> TRUE, response_time |-> Some(ms)]

DeviceSamples ==
    { << Unreachable("8.8.8.8"), Unreachable("1.1.1.1") >>,
      << Reachable("8.8.8.8", 1500), Reachable("1.1.1.1", 20) >> }

\* The batches of alerts one tick of loop l can create (main.py:143, 196, 252).
Batches(l) ==
    CASE l = "network" ->
             { process_network_alerts(x.upload_mbps, x.download_mbps, x.anomalies,
                                      BANDWIDTH_THRESHOLD_MBPS) : x \in NetworkSamples }
      [] l = "system" ->
             { process_system_alerts(x, [cpu    |-> CPU_THRESHOLD_PERCENT,
                                         memory |-> MEMORY_THRESHOLD_PERCENT,
                                         disk   |-> DISK_THRESHOLD_PERCENT]) :
                 x \in SystemSamples }
      [] l = "device" ->
             { process_device_alerts(x) : x \in DeviceSamples }

\* A plausible slip: the cooldown check is skipped.
should_send_alert_Always(alert_type) == TRUE

\* A plausible slip: one cooldown for all types together.
should_send_alert_AnyType(alert_type) ==
    \A t \in AlertTypes :
        LET last_alert_time == last_alert_times[t]
        IN  IF last_alert_time = None THEN TRUE
            ELSE now - Get(last_alert_time) >= cooldown_minutes * 60

\* A plausible slip: the minutes are compared with seconds.
should_send_alert_NoSeconds(alert_type) ==
    LET last_alert_time == last_alert_times[alert_type]
    IN  IF last_alert_time = None THEN TRUE
        ELSE now - Get(last_alert_time) >= cooldown_minutes

should_send_alert(alert_type) ==
    LET last_alert_time == last_alert_times[alert_type]
    IN  IF last_alert_time = None THEN TRUE
        ELSE now - Get(last_alert_time) >= cooldown_minutes * 60

\* send_email_alert returns for the head of loop l's batch: send_all_alerts
\* counts it, the loop goes on to the next alert or returns the counts.
Finish(l, outcome, table) ==
    LET alert == Head(am_queue[l])
        rest  == Tail(am_queue[l])
        cur   == Get(am_cur[l])
    IN  /\ am_results' = [am_results EXCEPT ![l] =
                             IF outcome = "sent"
                             THEN [@ EXCEPT !.sent = @ + 1]
                             ELSE [@ EXCEPT !.failed = @ + 1]]
        /\ am_batch' = [am_batch EXCEPT ![l] =
                           [@ EXCEPT ![outcome] = @ + 1]]
        /\ am_log' = [am_log EXCEPT ![l] = Append(@,
                            [alert_type |-> alert.alert_type,
                             message    |-> alert.message,
                             severity   |-> alert.severity,
                             outcome    |-> outcome,
                             checked    |-> IF outcome \in {"suppressed", "norecipients"}
                                            THEN now ELSE cur.checked,
                             delivered  |-> IF outcome = "sent" THEN cur.delivered ELSE now,
                             before     |-> IF outcome \in {"suppressed", "norecipients"}
                                            THEN last_alert_times[alert.alert_type]
                                            ELSE cur.before,
                             after      |-> table[alert.alert_type]])]
        /\ am_queue' = [am_queue EXCEPT ![l] = rest]
        /\ am_cur' = [am_cur EXCEPT ![l] = None]
        /\ am_pc' = [am_pc EXCEPT ![l] = IF rest = << >> THEN "idle" ELSE "check"]

\* A plausible slip: the log keeps the newest alert only.
ActiveAfterCreate_Trimmed(alerts) ==
    LET appended == active_alerts \o alerts
    IN  SubSeq(appended, Len(appended), Len(appended))

\* self.active_alerts.append(alert), for each alert the classifier created.
ActiveAfterCreate(alerts) == active_alerts \o alerts

\* get_alert_summary()['total_alerts']
total_alerts == Len(active_alerts)

\* One tick's classifier call, then send_all_alerts starts on its result.
GateClassify(l) ==
    /\ am_pc[l] = "idle"
    /\ \E alerts \in Batches(l) :
         /\ alerts # << >>
         /\ Len(active_alerts) + Len(alerts) <= MaxAlerts
         /\ active_alerts' = ActiveAfterCreate(alerts)
         /\ am_queue' = [am_queue EXCEPT ![l] = alerts]
         /\ am_batch' = [am_batch EXCEPT ![l] =
                            [size |-> Len(alerts), sent |-> 0, suppressed |-> 0,
                             failed |-> 0, norecipients |-> 0]]
    /\ am_results' = [am_results EXCEPT ![l] = [sent |-> 0, failed |-> 0]]
    /\ am_pc' = [am_pc EXCEPT ![l] = "check"]
    /\ UNCHANGED << now, recipients, last_alert_times, am_cur, am_log, bwVars, storeVars, classVars, loopVars, exportVars >>

\* send_email_alert up to the try: no recipients, or in cooldown, or go on.
SendCheck(l) ==
    /\ am_pc[l] = "check"
    /\ LET alert == Head(am_queue[l])
       IN  IF recipients = << >>
           THEN Finish(l, "norecipients", last_alert_times)
           ELSE IF ~should_send_alert(alert.alert_type)
           THEN Finish(l, "suppressed", last_alert_times)
           ELSE /\ am_pc' = [am_pc EXCEPT ![l] = "send"]
                /\ am_cur' = [am_cur EXCEPT ![l] =
                                 Some([checked   |-> now,
                                       delivered |-> now,
                                       before    |-> last_alert_times[alert.alert_type]])]
                /\ UNCHANGED << am_queue, am_results, am_batch, am_log >>
    /\ UNCHANGED << now, recipients, last_alert_times, active_alerts, bwVars, storeVars, classVars, loopVars, exportVars >>

\* A plausible slip: the except branch stamps the table as well.
TableAfterFailure_Stamped(alert) ==
    [last_alert_times EXCEPT ![alert.alert_type] = Some(now)]

\* The except branch: log and return False, the table is not written.
TableAfterFailure(alert) == last_alert_times

\* A plausible slip: the success branch returns without stamping the table.
TableAfterSuccess_Unstamped(alert) == last_alert_times

\* A plausible slip: the table takes the alert's creation time.
TableAfterSuccess_AlertTime(alert) ==
    [last_alert_times EXCEPT ![alert.alert_type] = Some(alert.timestamp)]

\* last_alert_times[alert.alert_type] = datetime.now()
TableAfterSuccess(alert) ==
    [last_alert_times EXCEPT ![alert.alert_type] = Some(now)]

\* The SMTP session of the try block: it delivers, or it raises.
TransportOk(l) ==
    /\ am_pc[l] = "send"
    /\ am_pc' = [am_pc EXCEPT ![l] = "update"]
    /\ am_cur' = [am_cur EXCEPT ![l] = Some([Get(@) EXCEPT !.delivered = now])]
    /\ UNCHANGED << now, recipients, last_alert_times, active_alerts, am_queue,
                    am_results, am_batch, am_log, bwVars, storeVars, classVars, loopVars, exportVars >>

TransportFail(l) ==
    /\ am_pc[l] = "send"
    /\ last_alert_times' = TableAfterFailure(Head(am_queue[l]))
    /\ Finish(l, "failed", last_alert_times')
    /\ UNCHANGED << now, recipients, active_alerts, bwVars, storeVars, classVars, loopVars, exportVars >>

\* After the session: the table is stamped and send_email_alert returns True.
SendUpdate(l) ==
    /\ am_pc[l] = "update"
    /\ last_alert_times' = TableAfterSuccess(Head(am_queue[l]))
    /\ Finish(l, "sent", last_alert_times')
    /\ UNCHANGED << now, recipients, active_alerts, bwVars, storeVars, classVars, loopVars, exportVars >>

\* The wall clock moves on between any two steps of the loops.
GateTick ==
    /\ now + TickSeconds <= MaxNow
    /\ now' = now + TickSeconds
    /\ UNCHANGED << gateVars, bwVars, storeVars, classVars, loopVars, exportVars >>

\* AlertManager.__init__: the stripped recipient list, an empty table, no alerts.
Init ==
    /\ now = 0
    /\ recipients \in { << >>, << "demo@example.com" >> }
    /\ last_alert_times = [t \in AlertTypes |-> None]
    /\ active_alerts = << >>
    /\ am_pc = [l \in Loops |-> "idle"]
    /\ am_queue = [l \in Loops |-> << >>]
    /\ am_results = [l \in Loops |-> [sent |-> 0, failed |-> 0]]
    /\ am_cur = [l \in Loops |-> None]
    /\ am_batch = [l \in Loops |->
                      [size |-> 0, sent |-> 0, suppressed |-> 0, failed |-> 0,
                       norecipients |-> 0]]
    /\ am_log = [l \in Loops |-> << >>]
    /\ BwIdle
    /\ StoreIdle
    /\ ClassIdle
    /\ LoopIdle
    /\ ExportIdle

Next ==
    \/ GateTick
    \/ \E l \in Loops : GateClassify(l)
    \/ \E l \in Loops : SendCheck(l)
    \/ \E l \in Loops : TransportOk(l)
    \/ \E l \in Loops : TransportFail(l)
    \/ \E l \in Loops : SendUpdate(l)

Spec == Init /\ [][Next]_vars

(***************************************************************************)
(* Claims about the cooldown gate and the batch send.                       *)
(***************************************************************************)
CooldownSeconds == cooldown_minutes * 60

\* The finished send_email_alert calls, as (loop, position in its record).
Calls == UNION { { << l, i >> : i \in 1..Len(am_log[l]) } : l \in Loops }

Call(c) == am_log[c[1]][c[2]]

\* Call c returned before call d began, for the same alert type.
EarlierSameType(c, d) ==
    /\ c[1] = d[1]
    /\ c[2] < d[2]
    /\ Call(c).alert_type = Call(d).alert_type

\* No call for d's alert type up to and including d met a failing transport.
TransportSucceededUpTo(d) ==
    \A c \in Calls :
        (EarlierSameType(c, d) \/ c = d) => Call(c).outcome # "failed"

\* C1: with recipients configured and a transport that succeeds, an attempt
\* made less than the cooldown after an earlier sent attempt of the same type
\* is suppressed, and an attempt made when at least the cooldown has elapsed
\* since every earlier successful send of its type is sent.
C1_CooldownGate ==
    recipients # << >> =>
        \A d \in Calls :
            TransportSucceededUpTo(d) =>
                /\ \A c \in Calls :
                       ( /\ EarlierSameType(c, d)
                         /\ Call(c).outcome = "sent"
                         /\ Call(d).checked - Call(c).checked < CooldownSeconds )
                       => Call(d).outcome = "suppressed"
                /\ ( \A c \in Calls :
                         (EarlierSameType(c, d) /\ Call(c).outcome = "sent")
                         => Call(d).checked - Get(Call(c).after) >= CooldownSeconds )
                   => Call(d).outcome = "sent"

\* Three attempts of one type: sent, suppressed within the cooldown, sent again
\* once the cooldown has elapsed since the first send.
C1_Witness ==
    \E l \in Loops :
        /\ Len(am_log[l]) = 3
        /\ \A i \in 1..3 : am_log[l][i].alert_type = am_log[l][1].alert_type
        /\ am_log[l][1].outcome = "sent"
        /\ am_log[l][2].outcome = "suppressed"
        /\ am_log[l][2].checked - am_log[l][1].checked < CooldownSeconds
        /\ am_log[l][3].outcome = "sent"
        /\ am_log[l][3].checked - Get(am_log[l][1].after) >= CooldownSeconds

\* C2: in the counts of send_all_alerts, failed counts only the alerts whose
\* delivery was attempted and failed; a suppressed alert is in neither count.
C2_SuppressedInNeitherCount ==
    recipients # << >> =>
        \A l \in Loops :
            /\ am_results[l].sent = am_batch[l].sent
            /\ am_results[l].failed = am_batch[l].failed

\* C3: a call whose transport failed leaves the table entry of its type as it
\* was before the attempt, and the next call for that type is not suppressed.
C3_FailureLeavesTable ==
    \A c \in Calls :
        Call(c).outcome = "failed" =>
            /\ Call(c).after = Call(c).before
            /\ \A d \in Calls :
                   ( /\ EarlierSameType(c, d)
                     /\ ~ \E e \in Calls : EarlierSameType(c, e) /\ EarlierSameType(e, d) )
                   => Call(d).outcome # "suppressed"

\* A failed attempt followed, within the cooldown, by a sent one of its type.
C3_Witness ==
    \E c, d \in Calls :
        /\ EarlierSameType(c, d)
        /\ d[2] = c[2] + 1
        /\ Call(c).outcome = "failed"
        /\ Call(d).outcome = "sent"
        /\ Call(d).checked - Call(c).checked < CooldownSeconds

\* C4: whatever the interleaving of the three loops, two successful sends of
\* the same alert type are delivered at least the cooldown apart.
C4_SendsCooldownApart ==
    \A c, d \in Calls :
        ( /\ c # d
          /\ Call(c).alert_type = Call(d).alert_type
          /\ Call(c).outcome = "sent"
          /\ Call(d).outcome = "sent" )
        => Abs(Call(d).delivered - Call(c).delivered) >= CooldownSeconds

\* Two sends of one type, with a send of another loop in flight between the
\* check of the first and the return of the second.
C4_Witness ==
    \E c, d \in Calls :
        /\ EarlierSameType(c, d)
        /\ Call(c).outcome = "sent"
        /\ Call(d).outcome = "sent"
        /\ \E m \in Loops \ {c[1]} : am_pc[m] \in {"send", "update"}

\* C16: suppression is keyed by alert_type alone.  A call made less than the
\* cooldown after a successful send of its type is suppressed whatever its
\* message and severity, and a suppressed call always has such a send of its
\* own type behind it: a send of another type never suppresses.
C16_KeyedByTypeOnly ==
    recipients # << >> =>
        \A d \in Calls :
            /\ \A c \in Calls :
                   ( /\ EarlierSameType(c, d)
                     /\ Call(c).outcome = "sent"
                     /\ Call(d).checked - Get(Call(c).after) < CooldownSeconds )
                   => Call(d).outcome = "suppressed"
            /\ Call(d).outcome = "suppressed" =>
                   \E c \in Calls :
                       /\ EarlierSameType(c, d)
                       /\ Call(c).outcome = "sent"
                       /\ Call(d).checked - Get(Call(c).after) < CooldownSeconds

\* Two unreachable devices in one device tick: the first alert is sent, the
\* second, with another message, is suppressed; meanwhile an alert of another
\* type was sent within the cooldown of the first.
C16_Witness ==
    /\ Len(am_log["device"]) = 2
    /\ am_log["device"][1].alert_type = "Device Unreachable"
    /\ am_log["device"][2].alert_type = "Device Unreachable"
    /\ am_log["device"][1].message # am_log["device"][2].message
    /\ am_log["device"][1].outcome = "sent"
    /\ am_log["device"][2].outcome = "suppressed"
    /\ \E c \in Calls :
           /\ c[1] # "device"
           /\ Call(c).outcome = "sent"
           /\ Call(c).checked >= Get(am_log["device"][1].after)
           /\ Call(c).checked - Get(am_log["device"][1].after) < CooldownSeconds

\* The number of alerts the classifiers have created: each one is waiting in
\* its batch, or its send_email_alert call has returned.
RECURSIVE CreatedIn(_)
CreatedIn(loops) ==
    IF loops = {} THEN 0
    ELSE LET l == CHOOSE x \in loops : TRUE
         IN  Len(am_queue[l]) + Len(am_log[l]) + CreatedIn(loops \ {l})

\* C17: the active-alert log holds every alert created, whatever became of its
\* send, so its length (total_alerts) is the number of alerts created; and the
\* log only grows at its end.
C17_ActiveLogComplete ==
    /\ [](total_alerts = CreatedIn(Loops))
    /\ [][ /\ Len(active_alerts') >= Len(active_alerts)
           /\ SubSeq(active_alerts', 1, Len(active_alerts)) = active_alerts ]_vars

\* Three alerts were created; one was sent, one suppressed, one failed.
C17_Witness ==
    /\ total_alerts = 3
    /\ \E c, d, e \in Calls :
           /\ Call(c).outcome = "sent"
           /\ Call(d).outcome = "suppressed"
           /\ Call(e).outcome = "failed"

(***************************************************************************)
(* The classifiers on their own: one call of process_system_alerts,         *)
(* process_network_alerts or process_device_alerts on a fresh AlertManager, *)
(* with the sample the loop of main.py hands it.                            *)
(***************************************************************************)
\* The thresholds dict of the system loop.
thresholds_of_system_loop ==
    [cpu    |-> CPU_THRESHOLD_PERCENT,
     memory |-> MEMORY_THRESHOLD_PERCENT,
     disk   |-> DISK_THRESHOLD_PERCENT]

\* Readings of psutil on both sides of every threshold and severity bound.
CpuReadings == {80, 81, 90, 91}

MemoryReadings == {85, 86, 95, 96}

DiskReadings == {89, 90, 91, 95, 96}

\* get_system_stats: the SystemStats the system loop classifies.
get_system_stats ==
    { [cpu_percent |-> c, memory_percent |-> m, disk_percent |-> d] :
        c \in CpuReadings, m \in MemoryReadings, d \in DiskReadings }

\* Rates on both sides of the threshold and of one and a half times it.
RateReadings == { Rat(2, 1), Rat(100, 1), Rat(201, 2), Rat(150, 1), Rat(301, 2) }

\* What detect_anomalies can return for a reading: its threshold descriptions,
\* and, with a history that makes the upload a spike, a spike description.
AnomaliesFor(upload_mbps, download_mbps) ==
    { ThresholdAnomalies(upload_mbps, download_mbps, BANDWIDTH_THRESHOLD_MBPS) \o spike :
        spike \in { << >> } \cup
                  (IF RatLess(Rat(10, 1), upload_mbps)
                   THEN { << << "Upload spike detected", upload_mbps, Rat(1, 1) >> >> }
                   ELSE {}) }

\* The outcomes of the ping subprocess: it exits with a return code after
\* some milliseconds, it exceeds the timeout, or running it raises.
Probes ==
    { [kind |-> "exit", returncode |-> 0, elapsed_ms |-> ms] : ms \in {0, 20, 1000, 1001, 1500} }
    \cup { [kind |-> "exit", returncode |-> 1, elapsed_ms |-> 20],
           [kind |-> "exit", returncode |-> 2, elapsed_ms |-> 1500],
           [kind |-> "timeout"],
           [kind |-> "error"] }

\* A plausible slip: a failed ping keeps the time measured.
ping_device_KeepsTime(ip_address, probe) ==
    IF probe.kind = "exit"
    THEN [ip_address |-> ip_address, is_reachable |-> probe.returncode = 0,
          response_time |-> Some(probe.elapsed_ms)]
    ELSE Unreachable(ip_address)

\* ping_device: reachable iff the return code is 0, and only then a time.
ping_device(ip_address, probe) ==
    IF probe.kind = "exit"
    THEN LET is_reachable == probe.returncode = 0
         IN  [ip_address |-> ip_address, is_reachable |-> is_reachable,
              response_time |-> IF is_reachable THEN Some(probe.elapsed_ms) ELSE None]
    ELSE Unreachable(ip_address)

\* Config.MONITORED_DEVICES
MONITORED_DEVICES == << "8.8.8.8", "1.1.1.1" >>

\* The system loop: get_system_stats, then process_system_alerts.
ClassifySystem ==
    /\ cl_sample = None
    /\ \E system_stats \in get_system_stats :
         /\ cl_sample' = Some([kind |-> "system", stats |-> system_stats])
         /\ cl_alerts' = process_system_alerts(system_stats, thresholds_of_system_loop)
    /\ active_alerts' = ActiveAfterCreate(cl_alerts')
    /\ UNCHANGED << now, recipients, last_alert_times, am_pc, am_queue, am_results,
                    am_cur, am_batch, am_log, bwVars, storeVars, loopVars, exportVars >>

\* The network loop: the rates, detect_anomalies, then process_network_alerts.
ClassifyNetwork ==
    /\ cl_sample = None
    /\ \E upload_mbps \in RateReadings, download_mbps \in RateReadings :
         \E anomalies \in AnomaliesFor(upload_mbps, download_mbps) :
           /\ cl_sample' = Some([kind |-> "network", upload_mbps |-> upload_mbps,
                                 download_mbps |-> download_mbps,
                                 anomalies |-> anomalies])
           /\ cl_alerts' = process_network_alerts(upload_mbps, download_mbps, anomalies,
                                                  BANDWIDTH_THRESHOLD_MBPS)
    /\ active_alerts' = ActiveAfterCreate(cl_alerts')
    /\ UNCHANGED << now, recipients, last_alert_times, am_pc, am_queue, am_results,
                    am_cur, am_batch, am_log, bwVars, storeVars, loopVars, exportVars >>

\* The device loop: ping_device for each monitored device, then
\* process_device_alerts on the list of statuses.
ClassifyDevices ==
    /\ cl_sample = None
    /\ \E probes \in [DOMAIN MONITORED_DEVICES -> Probes] :
         LET device_statuses ==
                 [i \in DOMAIN MONITORED_DEVICES |->
                     ping_device(MONITORED_DEVICES[i], probes[i])]
         IN  /\ cl_sample' = Some([kind |-> "device", probes |-> probes,
                                   device_statuses |-> device_statuses])
             /\ cl_alerts' = process_device_alerts(device_statuses)
    /\ active_alerts' = ActiveAfterCreate(cl_alerts')
    /\ UNCHANGED << now, recipients, last_alert_times, am_pc, am_queue, am_results,
                    am_cur, am_batch, am_log, bwVars, storeVars, loopVars, exportVars >>

\* A fresh AlertManager, and no sample classified yet.
ClassifyInit ==
    /\ now = 0
    /\ recipients = << "demo@example.com" >>
    /\ last_alert_times = [t \in AlertTypes |-> None]
    /\ active_alerts = << >>
    /\ am_pc = [l \in Loops |-> "idle"]
    /\ am_queue = [l \in Loops |-> << >>]
    /\ am_results = [l \in Loops |-> [sent |-> 0, failed |-> 0]]
    /\ am_cur = [l \in Loops |-> None]
    /\ am_batch = [l \in Loops |->
                      [size |-> 0, sent |-> 0, suppressed |-> 0, failed |-> 0,
                       norecipients |-> 0]]
    /\ am_log = [l \in Loops |-> << >>]
    /\ cl_sample = None
    /\ cl_alerts = << >>
    /\ BwIdle
    /\ StoreIdle
    /\ LoopIdle
    /\ ExportIdle

ClassifyNext == ClassifySystem \/ ClassifyNetwork \/ ClassifyDevices

ClassifySpec == ClassifyInit /\ [][ClassifyNext]_vars

(***************************************************************************)
(* Claims about the classifiers.                                            *)
(***************************************************************************)
\* The sample of kind k that was classified, if one was.
Classified(k) == cl_sample # None /\ Get(cl_sample).kind = k

\* The alerts of one type the classifier returned.
AlertsOfType(alert_type) == SelectSeq(cl_alerts, LAMBDA a : a.alert_type = alert_type)

\* C24: a disk sample gives a 'High Disk Usage' alert iff disk_percent is
\* above the disk threshold; the alert is critical above 95 and high otherwise
\* (with the threshold 90: 96 critical, 91 high, 89 no alert).
C24_DiskAlertIff ==
    Classified("system") =>
        LET disk_percent == Get(cl_sample).stats.disk_percent
            disk_alerts  == AlertsOfType("High Disk Usage")
        IN  /\ Len(disk_alerts) = (IF disk_percent > DISK_THRESHOLD_PERCENT THEN 1 ELSE 0)
            /\ \A i \in DOMAIN disk_alerts :
                   disk_alerts[i].severity =
                       (IF disk_percent > 95 THEN "critical" ELSE "high")
            /\ disk_percent = 96 => disk_alerts # << >> /\ disk_alerts[1].severity = "critical"
            /\ disk_percent = 91 => disk_alerts # << >> /\ disk_alerts[1].severity = "high"
            /\ disk_percent = 89 => disk_alerts = << >>

\* A disk reading of 91 was classified: one alert of severity high.
C24_Witness ==
    /\ Classified("system")
    /\ Get(cl_sample).stats.disk_percent = 91
    /\ Len(AlertsOfType("High Disk Usage")) = 1
    /\ AlertsOfType("High Disk Usage")[1].severity = "high"

\* C26: a CPU (memory) sample gives an alert iff the value is above the
\* configured threshold; the alert is high above the fixed bound 90 (95) and
\* medium otherwise; no system alert is low, and no CPU or memory alert is
\* critical.
C26_CpuMemoryAlertIff ==
    Classified("system") =>
        LET stats         == Get(cl_sample).stats
            cpu_alerts    == AlertsOfType("High CPU Usage")
            memory_alerts == AlertsOfType("High Memory Usage")
        IN  /\ Len(cpu_alerts) =
                   (IF stats.cpu_percent > CPU_THRESHOLD_PERCENT THEN 1 ELSE 0)
            /\ Len(memory_alerts) =
                   (IF stats.memory_percent > MEMORY_THRESHOLD_PERCENT THEN 1 ELSE 0)
            /\ \A i \in DOMAIN cpu_alerts :
                   cpu_alerts[i].severity =
                       (IF stats.cpu_percent > 90 THEN "high" ELSE "medium")
            /\ \A i \in DOMAIN memory_alerts :
                   memory_alerts[i].severity =
                       (IF stats.memory_percent > 95 THEN "high" ELSE "medium")
            /\ \A i \in DOMAIN cl_alerts :
                   /\ cl_alerts[i].severity # "low"
                   /\ cl_alerts[i].severity = "critical" =>
                          cl_alerts[i].alert_type = "High Disk Usage"

\* A memory reading between the two bounds (95) with a CPU reading above both
\* (91) was classified: a medium memory alert next to a high CPU alert.
C26_Witness ==
    /\ Classified("system")
    /\ Get(cl_sample).stats.memory_percent = 95
    /\ Get(cl_sample).stats.cpu_percent = 91
    /\ Len(AlertsOfType("High Memory Usage")) = 1
    /\ AlertsOfType("High Memory Usage")[1].severity = "medium"
    /\ AlertsOfType("High CPU Usage")[1].severity = "high"


\* C27: upload and download each give a bandwidth alert iff the rate is
\* above the threshold, high above one and a half times the threshold and
\* medium otherwise; every alert built from an anomaly description is medium.
C27_BandwidthAlertIff ==
    Classified("network") =>
        LET sample   == Get(cl_sample)
            uploads   == AlertsOfType("High Upload Bandwidth")
            downloads == AlertsOfType("High Download Bandwidth")
            anomaly   == AlertsOfType("Network Traffic Anomaly")
            T         == Rat(BANDWIDTH_THRESHOLD_MBPS, 1)
            T15       == Rat(3 * BANDWIDTH_THRESHOLD_MBPS, 2)
        IN  /\ Len(uploads) = (IF RatLess(T, sample.upload_mbps) THEN 1 ELSE 0)
            /\ Len(downloads) = (IF RatLess(T, sample.download_mbps) THEN 1 ELSE 0)
            /\ \A i \in DOMAIN uploads :
                   uploads[i].severity =
                       (IF RatLess(T15, sample.upload_mbps) THEN "high" ELSE "medium")
            /\ \A i \in DOMAIN downloads :
                   downloads[i].severity =
                       (IF RatLess(T15, sample.download_mbps) THEN "high" ELSE "medium")
            /\ Len(anomaly) = Len(sample.anomalies)
            /\ \A i \in DOMAIN anomaly :
                   /\ anomaly[i].severity = "medium"
                   /\ anomaly[i].message = sample.anomalies[i]

\* Upload exactly at one and a half times the threshold (medium), download
\* exactly at the threshold (no alert), and a spike description among the
\* anomalies.
C27_Witness ==
    /\ Classified("network")
    /\ Get(cl_sample).upload_mbps = Rat(150, 1)
    /\ Get(cl_sample).download_mbps = Rat(100, 1)
    /\ Len(Get(cl_sample).anomalies) = 2
    /\ AlertsOfType("High Upload Bandwidth")[1].severity = "medium"
    /\ AlertsOfType("High Download Bandwidth") = << >>

\* The alerts of one type about the device ip (the message names the device).
DeviceAlerts(alert_type, ip) ==
    SelectSeq(cl_alerts, LAMBDA a : a.alert_type = alert_type /\ a.message[2] = ip)

\* C28: a reachable device gives a 'High Latency' alert of severity medium
\* iff its response time is above 1000 ms; at or below 1000 ms it gives no
\* alert at all.
C28_LatencyAlertIff ==
    Classified("device") =>
        \A i \in DOMAIN Get(cl_sample).device_statuses :
            LET status == Get(cl_sample).device_statuses[i]
                latency == DeviceAlerts("High Latency", status.ip_address)
            IN  status.is_reachable =>
                  /\ Len(latency) = (IF Get(status.response_time) > 1000 THEN 1 ELSE 0)
                  /\ \A j \in DOMAIN latency : latency[j].severity = "medium"
                  /\ DeviceAlerts("Device Unreachable", status.ip_address) = << >>
                  /\ Get(status.response_time) <= 1000 =>
                         \A j \in DOMAIN cl_alerts :
                             cl_alerts[j].message[2] # status.ip_address

\* One device answered in 1001 ms (alert), the other in exactly 1000 ms (none).
C28_Witness ==
    /\ Classified("device")
    /\ Get(cl_sample).device_statuses[1] = Reachable("8.8.8.8", 1001)
    /\ Get(cl_sample).device_statuses[2] = Reachable("1.1.1.1", 1000)
    /\ Len(cl_alerts) = 1
    /\ cl_alerts[1].alert_type = "High Latency"

\* C25: a device that does not respond (non-zero return code, timeout or
\* probe error) gives a status with is_reachable false and no response time;
\* every unreachable status gives exactly one 'Device Unreachable' alert of
\* severity high and no 'High Latency' alert.
C25_UnreachableDevice ==
    Classified("device") =>
        \A i \in DOMAIN Get(cl_sample).device_statuses :
            LET status == Get(cl_sample).device_statuses[i]
                probe == Get(cl_sample).probes[i]
                unreachable == DeviceAlerts("Device Unreachable", status.ip_address)
            IN  /\ ~(probe.kind = "exit" /\ probe.returncode = 0) =>
                       /\ status.is_reachable = FALSE
                       /\ status.response_time = None
                /\ ~status.is_reachable =>
                       /\ Len(unreachable) = 1
                       /\ unreachable[1].severity = "high"
                       /\ DeviceAlerts("High Latency", status.ip_address) = << >>

\* A ping that failed after 1500 ms and a ping that timed out: two
\* 'Device Unreachable' alerts.
C25_Witness ==
    /\ Classified("device")
    /\ Get(cl_sample).probes[1] = [kind |-> "exit", returncode |-> 2, elapsed_ms |-> 1500]
    /\ Get(cl_sample).probes[2].kind = "timeout"
    /\ Len(AlertsOfType("Device Unreachable")) = 2

(***************************************************************************)
(* NetworkMonitoringSystem: start, stop and the three loop threads of       *)
(* src/main.py.  A tick is the body of 'while self.running: try: ...'; its  *)
(* calls are taken one step each, the sends of the batch one step together. *)
(***************************************************************************)
\* The calls of one tick, in the order of the loop body.
Stages == << "acquire", "persist", "classify", "log_alerts", "dispatch" >>

\* What the calls of a loop do: they return ("ok"), they may take any time
\* and may never return ("slow"), or they may raise ("failing").
LoopEnvs == {"ok", "slow", "failing"}

\* What send_email_alert can do with one alert of the batch.
Outcomes == {"sent", "suppressed", "failed"}

\* The lists a classifier returns in a tick: no alert, or the loop's alerts.
TickBatches(l) == { << >>, LoopAlerts(l) }

NoTick(l) ==
    /\ lp_trace' = [lp_trace EXCEPT ![l] = << >>]
    /\ lp_alerts' = [lp_alerts EXCEPT ![l] = << >>]
    /\ lp_persisted' = [lp_persisted EXCEPT ![l] = << >>]
    /\ lp_attempted' = [lp_attempted EXCEPT ![l] = << >>]

Returned(l, stage) == lp_trace' = [lp_trace EXCEPT ![l] = Append(@, stage)]

\* A plausible slip: the loop functions are called one after the other
\* instead of each in its own thread, so only the first one ever runs.
StartPc_Inline(l) == IF l = "network" THEN "top" ELSE "unstarted"

\* threading.Thread(target=..., daemon=True).start(): every loop gets its own
\* thread, which begins at the loop condition.
StartPc(l) == "top"

\* start(): returns if already running; sets the flag and starts the threads.
\* The program calls it once (main.py:349).
Start ==
    /\ ~running
    /\ \A l \in Loops : lp_pc[l] = "unstarted"
    /\ running' = TRUE
    /\ lp_pc' = [l \in Loops |-> StartPc(l)]
    /\ UNCHANGED << lp_env, lp_trace, lp_alerts, lp_persisted, lp_attempted,
                    now, bwVars, storeVars, gateVars, classVars, exportVars >>

\* stop(), from the signal handler or the finally of start(): returns if not
\* running; clears the flag and waits at most five seconds for each thread.
Stop ==
    /\ running
    /\ running' = FALSE
    /\ UNCHANGED << lp_env, lp_pc, lp_trace, lp_alerts, lp_persisted, lp_attempted,
                    now, bwVars, storeVars, gateVars, classVars, exportVars >>

\* A plausible slip: 'while True'.
LoopCondition_Forever(l) == TRUE

\* while self.running
LoopCondition(l) == running

\* The loop condition is evaluated: the body is entered, or the thread's
\* function returns.
LoopTop(l) ==
    /\ lp_pc[l] = "top"
    /\ lp_pc' = [lp_pc EXCEPT ![l] = IF LoopCondition(l) THEN "acquire" ELSE "stopped"]
    /\ UNCHANGED << running, lp_env, lp_trace, lp_alerts, lp_persisted, lp_attempted,
                    now, bwVars, storeVars, gateVars, classVars, exportVars >>

\* get_network_stats / calculate_bandwidth_usage / detect_anomalies,
\* get_system_stats, or ping_device for every monitored device.
Acquire(l) ==
    /\ lp_pc[l] = "acquire"
    /\ lp_pc' = [lp_pc EXCEPT ![l] = "persist"]
    /\ Returned(l, "acquire")
    /\ UNCHANGED << running, lp_env, lp_alerts, lp_persisted, lp_attempted,
                    now, bwVars, storeVars, gateVars, classVars, exportVars >>

\* log_network_data / log_system_data / log_device_data; the loop does not
\* read what it returns.
Persist(l) ==
    /\ lp_pc[l] = "persist"
    /\ lp_pc' = [lp_pc EXCEPT ![l] = "classify"]
    /\ Returned(l, "persist")
    /\ UNCHANGED << running, lp_env, lp_alerts, lp_persisted, lp_attempted,
                    now, bwVars, storeVars, gateVars, classVars, exportVars >>

\* A plausible slip: the batch is sent without being logged first.
AfterClassify_SendFirst(alerts) == IF alerts # << >> THEN "dispatch" ELSE "sleep"

\* if alerts: log_alert_data(alerts); send_all_alerts(alerts)
AfterClassify(alerts) == IF alerts # << >> THEN "log_alerts" ELSE "sleep"

\* alerts = process_*_alerts(...)
Classify(l) ==
    /\ lp_pc[l] = "classify"
    /\ \E alerts \in TickBatches(l) :
         /\ lp_alerts' = [lp_alerts EXCEPT ![l] = alerts]
         /\ lp_pc' = [lp_pc EXCEPT ![l] = AfterClassify(alerts)]
    /\ Returned(l, "classify")
    /\ UNCHANGED << running, lp_env, lp_persisted, lp_attempted,
                    now, bwVars, storeVars, gateVars, classVars, exportVars >>

\* self.data_logger.log_alert_data(alerts); the loop does not read what it
\* returns.
LogAlerts(l) ==
    /\ lp_pc[l] = "log_alerts"
    /\ lp_pc' = [lp_pc EXCEPT ![l] = "dispatch"]
    /\ lp_persisted' = [lp_persisted EXCEPT ![l] = lp_alerts[l]]
    /\ Returned(l, "log_alerts")
    /\ UNCHANGED << running, lp_env, lp_alerts, lp_attempted,
                    now, bwVars, storeVars, gateVars, classVars, exportVars >>

\* result = self.alert_manager.send_all_alerts(alerts): one send_email_alert
\* per alert of the list, each sent, suppressed or failed.
Dispatch(l) ==
    /\ lp_pc[l] = "dispatch"
    /\ lp_pc' = [lp_pc EXCEPT ![l] = "sleep"]
    /\ \E outcome \in [DOMAIN lp_alerts[l] -> Outcomes] :
         lp_attempted' = [lp_attempted EXCEPT ![l] =
                             [i \in DOMAIN lp_alerts[l] |->
                                 [alert |-> lp_alerts[l][i], outcome |-> outcome[i]]]]
    /\ Returned(l, "dispatch")
    /\ UNCHANGED << running, lp_env, lp_alerts, lp_persisted,
                    now, bwVars, storeVars, gateVars, classVars, exportVars >>

\* A plausible slip: no try/except in the loop body, so the exception ends
\* the thread.
AfterException_Dies(l) == "stopped"

\* except Exception as e: log it, time.sleep(10)
AfterException(l) == "backoff"

\* One of the calls of the tick raises.
Raise(l) ==
    /\ lp_env[l] = "failing"
    /\ lp_pc[l] \in Range(Stages)
    /\ lp_pc' = [lp_pc EXCEPT ![l] = AfterException(l)]
    /\ UNCHANGED << running, lp_env, lp_trace, lp_alerts, lp_persisted, lp_attempted,
                    now, bwVars, storeVars, gateVars, classVars, exportVars >>

\* time.sleep(interval) at the end of the body returns.
Sleep(l) ==
    /\ lp_pc[l] = "sleep"
    /\ lp_pc' = [lp_pc EXCEPT ![l] = "top"]
    /\ NoTick(l)
    /\ UNCHANGED << running, lp_env,
                    now, bwVars, storeVars, gateVars, classVars, exportVars >>

\* time.sleep(10) of the except branch returns.
Backoff(l) ==
    /\ lp_pc[l] = "backoff"
    /\ lp_pc' = [lp_pc EXCEPT ![l] = "top"]
    /\ NoTick(l)
    /\ UNCHANGED << running, lp_env,
                    now, bwVars, storeVars, gateVars, classVars, exportVars >>

\* The calls of the body that go to the environment.
StageReturn(l) ==
    Acquire(l) \/ Persist(l) \/ Classify(l) \/ LogAlerts(l) \/ Dispatch(l)

\* NetworkMonitoringSystem.__init__: not running, no thread.  The environment
\* of at most one loop misbehaves in a run.
LoopInit ==
    /\ now = 0
    /\ running = FALSE
    /\ lp_env \in [Loops -> LoopEnvs]
    /\ \E t \in Loops : \A l \in Loops \ {t} : lp_env[l] = "ok"
    /\ lp_pc = [l \in Loops |-> "unstarted"]
    /\ lp_trace = [l \in Loops |-> << >>]
    /\ lp_alerts = [l \in Loops |-> << >>]
    /\ lp_persisted = [l \in Loops |-> << >>]
    /\ lp_attempted = [l \in Loops |-> << >>]
    /\ BwIdle
    /\ StoreIdle
    /\ GateIdle
    /\ ClassIdle
    /\ ExportIdle

LoopNext ==
    \/ Start
    \/ Stop
    \/ \E l \in Loops : LoopTop(l)
    \/ \E l \in Loops : Acquire(l)
    \/ \E l \in Loops : Persist(l)
    \/ \E l \in Loops : Classify(l)
    \/ \E l \in Loops : LogAlerts(l)
    \/ \E l \in Loops : Dispatch(l)
    \/ \E l \in Loops : Raise(l)
    \/ \E l \in Loops : Sleep(l)
    \/ \E l \in Loops : Backoff(l)

LoopSpec == LoopInit /\ [][LoopNext]_vars

\* The steps of a loop's thread other than a call raising: the loop
\* condition, a sleep returning, and, unless the loop's environment is slow,
\* a call of the body returning.
LoopStep(l) ==
    \/ LoopTop(l)
    \/ Sleep(l)
    \/ Backoff(l)
    \/ (lp_env[l] # "slow" /\ StageReturn(l))

\* Every thread is scheduled again and again, the sleeps return, and the
\* calls of a loop return unless its environment is slow.
LoopFairness == \A l \in Loops : WF_vars(LoopStep(l))

LoopFairSpec == LoopInit /\ [][LoopNext]_vars /\ LoopFairness

(***************************************************************************)
(* Claims about the loops.                                                  *)
(***************************************************************************)
\* start() has created the loop threads.
Started == \E l \in Loops : lp_pc[l] # "unstarted"

\* C21: an exception raised in any call of a tick never ends the loop: the
\* thread's function returns only from the loop condition, with the running
\* flag cleared; after the exception the loop backs off and then begins a
\* later tick, unless the flag was cleared meanwhile and it exits.
C21_ExceptionNeverEndsLoop ==
    /\ [][ \A l \in Loops :
             /\ (lp_pc'[l] = "stopped" /\ lp_pc[l] # "stopped") =>
                    (lp_pc[l] = "top" /\ ~running)
             /\ (lp_pc[l] \in Range(Stages) /\ lp_trace'[l] = lp_trace[l]
                     /\ lp_pc'[l] # lp_pc[l]) => lp_pc'[l] = "backoff" ]_vars
    /\ \A l \in Loops :
           [](lp_pc[l] = "backoff" => <>(lp_pc[l] = "acquire" \/ ~running))

\* An exception was caught in the send of a logged batch while another loop
\* is in its backoff too, and the system is running.
C21_Witness ==
    /\ running
    /\ lp_pc["system"] = "backoff"
    /\ lp_trace["system"] = << "acquire", "persist", "classify", "log_alerts" >>
    /\ lp_pc["device"] = "sleep"

\* C22: once stop has cleared the running flag, every loop whose calls return
\* reaches the loop condition and exits; no tick begins while the flag is
\* cleared, and a loop that has exited stays so.
C22_StopEndsLoops ==
    /\ \A l \in Loops :
           []((Started /\ ~running /\ lp_env[l] # "slow") => <>(lp_pc[l] = "stopped"))
    /\ [][ \A l \in Loops :
             /\ (lp_pc'[l] = "acquire" /\ lp_pc[l] # "acquire") =>
                    (lp_pc[l] = "top" /\ running)
             /\ (lp_pc[l] = "top" /\ ~running) => lp_pc'[l] \in {"top", "stopped"}
             /\ lp_pc[l] = "stopped" => lp_pc'[l] = "stopped" ]_vars

\* The flag is cleared; one loop has exited, one is still in a tick and one
\* in its backoff.
C22_Witness ==
    /\ Started
    /\ ~running
    /\ \E l, m, k \in Loops :
           /\ lp_pc[l] = "stopped"
           /\ lp_pc[m] = "dispatch"
           /\ lp_pc[k] = "backoff"

\* C23: no loop blocks another: whatever the other loops do (one hanging in a
\* call, one failing again and again), a loop whose own calls return
\* completes ticks again and again for as long as the system is running.
C23_NoLoopBlocksAnother ==
    \A m \in Loops :
        [](lp_env[m] = "ok" => <>(~running \/ (lp_pc[m] = "sleep" /\ running)))

\* While one loop is inside a call that has not returned, the other two have
\* each completed a tick with alerts.
C23_Witness ==
    /\ running
    /\ \E l \in Loops :
           /\ lp_env[l] = "slow"
           /\ lp_pc[l] = "acquire"
           /\ \A m \in Loops \ {l} :
                  /\ lp_env[m] = "ok"
                  /\ lp_pc[m] = "sleep"
                  /\ lp_trace[m] = Stages

\* s is an initial part of t.
IsPrefix(s, t) == Len(s) <= Len(t) /\ SubSeq(t, 1, Len(s)) = s

DatasetPaths ==
    [network |-> "data/network_data.json", system |-> "data/system_data.json",
     device  |-> "data/device_data.json",  alert  |-> "data/alert_data.json"]

\* The file the export command writes: its generated default name, or the
\* name given with --output.
ExportFilenames == { "network_data_export.json", "export.json" }

\* The values of data_type that export_data tells apart.
DataTypes == { "all", "network", "system", "device", "alert" }

\* Records of the other three datasets, created at time t.
NetworkRecord(t) == [timestamp |-> isoformat(t), upload_mbps |-> 1]

SystemRecord(t) == [timestamp |-> isoformat(t), cpu_percent |-> 50]

DeviceRecord(t, ip) ==
    [timestamp |-> isoformat(t), ip_address |-> ip, is_reachable |-> TRUE]

AbsentFile == [kind |-> "absent", data |-> << >>, size |-> 0]

JsonFile(data) == [kind |-> "json", data |-> data, size |-> Len(data)]

\* Datasets written by earlier runs: no file yet, records inside and outside
\* the windows asked for, and a record whose timestamp does not parse.
StoredNetwork ==
    { AbsentFile,
      JsonFile(<< NetworkRecord(0), NetworkRecord(3600), NetworkRecord(3601) >>),
      JsonFile(<< NetworkRecord(3601), BadTimestamp >>) }

StoredSystem ==
    { AbsentFile,
      JsonFile(<< SystemRecord(0), SystemRecord(3600) >>),
      JsonFile(<< SystemRecord(3601) >>) }

StoredDevice ==
    { AbsentFile,
      JsonFile(<< DeviceRecord(0, "8.8.8.8"), DeviceRecord(3600, "8.8.8.8"),
                  DeviceRecord(3600, "1.1.1.1") >>),
      JsonFile(<< DeviceRecord(3601, "1.1.1.1"), NoTimestamp >>) }

StoredAlerts ==
    { AbsentFile,
      JsonFile(<< WellFormed(0), WellFormed(3600), WellFormed(3601) >>),
      JsonFile(<< NoTimestamp, WellFormed(3600) >>) }

get_network_history(file, hours) ==
    LET data == _load_data_file(file)
        cutoff_time == now - (hours * 3600)
    IN  SelectSeq(data, LAMBDA record : InWindow(record, cutoff_time))

get_system_history(file, hours) ==
    LET data == _load_data_file(file)
        cutoff_time == now - (hours * 3600)
    IN  SelectSeq(data, LAMBDA record : InWindow(record, cutoff_time))

\* ip_address is None, or the address whose records are wanted.
get_device_history(file, ip_address, hours) ==
    LET data == _load_data_file(file)
        cutoff_time == now - (hours * 3600)
    IN  SelectSeq(data, LAMBDA record :
            /\ InWindow(record, cutoff_time)
            /\ \/ ip_address = None
               \/ /\ "ip_address" \in DOMAIN record
                  /\ record.ip_address = Get(ip_address))

\* One conditional entry of the dict export_data.
BundleEntry(data_type, key, value) ==
    IF data_type \in {"all", key} THEN key :> value ELSE [k \in {} |-> << >>]

\* The dict export_data builds: the query results chosen by data_type, the
\* export time and the window length.
ExportBundle(data_type, hours) ==
    BundleEntry(data_type, "network", get_network_history(network_data_file, hours))
    @@ BundleEntry(data_type, "system", get_system_history(system_data_file, hours))
    @@ BundleEntry(data_type, "device", get_device_history(device_data_file, None, hours))
    @@ BundleEntry(data_type, "alert", get_alert_history(alert_data_file, hours))
    @@ ("export_timestamp" :> isoformat(now))
    @@ ("export_period_hours" :> hours)

\* A plausible slip: the bundle is saved over the alert dataset.
WriteTarget_AlertDataset(filename) == DatasetPaths.alert

\* with open(filename, 'w') as f
WriteTarget(filename) == filename

\* The content of the file at path after text was written to target.
Written(path, file, target, text) == IF target = path THEN text ELSE file

\* export_data(filename, data_type, hours) returns True: the bundle is built
\* and dumped to the file.  The export command makes one call per run.
ExportData ==
    \E filename \in ExportFilenames, data_type \in DataTypes, hours \in QueryHours :
        LET bundle == ExportBundle(data_type, hours)
            target == WriteTarget(filename)
        IN  /\ ex_result = None
            /\ network_data_file' =
                   Written(DatasetPaths.network, network_data_file, target, JsonFile(<< bundle >>))
            /\ system_data_file' =
                   Written(DatasetPaths.system, system_data_file, target, JsonFile(<< bundle >>))
            /\ device_data_file' =
                   Written(DatasetPaths.device, device_data_file, target, JsonFile(<< bundle >>))
            /\ alert_data_file' =
                   Written(DatasetPaths.alert, alert_data_file, target, JsonFile(<< bundle >>))
            /\ export_file' =
                   IF target \in ExportFilenames
                   THEN Some([filename |-> target, content |-> bundle])
                   ELSE export_file
            /\ ex_result' = Some([filename |-> filename, data_type |-> data_type,
                                  hours |-> hours, at |-> now, ok |-> TRUE])
            /\ UNCHANGED << now, st_pc, st_loaded, st_new, st_data, st_result, st_seen,
                            st_created, st_ok, st_overlap, st_failed, st_readfail,
                            q_result, bwVars, gateVars, classVars, loopVars >>

\* export_data returns False: opening the export file raises, nothing is
\* written.
ExportDataFail ==
    \E filename \in ExportFilenames, data_type \in DataTypes, hours \in QueryHours :
        /\ ex_result = None
        /\ ex_result' = Some([filename |-> filename, data_type |-> data_type,
                              hours |-> hours, at |-> now, ok |-> FALSE])
        /\ UNCHANGED << network_data_file, system_data_file, device_data_file,
                        export_file, now, storeVars, bwVars, gateVars, classVars,
                        loopVars >>

\* Datasets written by earlier runs, no append in progress, no export yet.
ExportInit ==
    /\ now \in QueryNows
    /\ network_data_file \in StoredNetwork
    /\ system_data_file \in StoredSystem
    /\ device_data_file \in StoredDevice
    /\ alert_data_file \in StoredAlerts
    /\ export_file = None
    /\ ex_result = None
    /\ st_pc = [l \in Loops |-> "idle"]
    /\ st_loaded = [l \in Loops |-> << >>]
    /\ st_new = [l \in Loops |-> << >>]
    /\ st_data = [l \in Loops |-> << >>]
    /\ st_result = None
    /\ st_seen = "absent"
    /\ st_created = 0
    /\ st_ok = EmptyBag
    /\ st_overlap = FALSE
    /\ st_failed = FALSE
    /\ st_readfail = [l \in Loops |-> FALSE]
    /\ q_result = None
    /\ BwIdle
    /\ GateIdle
    /\ ClassIdle
    /\ LoopIdle

ExportNext == ExportData \/ ExportDataFail

ExportSpec == ExportInit /\ [][ExportNext]_vars

(***************************************************************************)
(* Claims about the export.                                                 *)
(***************************************************************************)
\* The records of a stored dataset whose timestamp parses and is not before
\* the cutoff of a window of the given hours ending now.
WindowOf(file, hours) ==
    SelectSeq(file.data, LAMBDA record :
        /\ "timestamp" \in DOMAIN record
        /\ ParsesAsTime(record.timestamp)
        /\ fromisoformat(record.timestamp) >= now - hours * 3600)

InCooldown(entry, checked) ==
    /\ entry # None
    /\ checked - Get(entry) < CooldownSeconds

\* C31: the transport is invoked only for alerts that pass the cooldown check.
\* A loop is in the SMTP session only with recipients configured and its
\* alert's type out of cooldown at the check; a call that found no recipients
\* or its type in cooldown made no delivery attempt and left the table entry
\* as it was.
C31_TransportOnlyAfterCheck ==
    /\ \A l \in Loops :
           am_pc[l] \in {"send", "update"} =>
               /\ recipients # << >>
               /\ ~InCooldown(Get(am_cur[l]).before, Get(am_cur[l]).checked)
               /\ last_alert_times[Head(am_queue[l]).alert_type] = Get(am_cur[l]).before
    /\ \A c \in Calls :
           /\ (recipients = << >> \/ InCooldown(Call(c).before, Call(c).checked))
              => /\ Call(c).outcome \in {"suppressed", "norecipients"}
                 /\ Call(c).after = Call(c).before
           /\ Call(c).outcome \in {"sent", "failed"}
              => /\ recipients # << >>
                 /\ ~InCooldown(Call(c).before, Call(c).checked)

\* A call that found its type in cooldown and returned without a delivery,
\* while another loop is inside the SMTP session.
C31_Witness ==
    \E c \in Calls :
        /\ InCooldown(Call(c).before, Call(c).checked)
        /\ Call(c).outcome = "suppressed"
        /\ Call(c).after = Call(c).before
        /\ \E m \in Loops \ {c[1]} : am_pc[m] = "send"

\* The sent calls of an alert type.
SentCalls(alert_type) ==
    { c \in Calls : Call(c).alert_type = alert_type /\ Call(c).outcome = "sent" }

\* The most recent sent call of an alert type: no sent call of the type
\* returned after it.
MostRecentSent(c) ==
    /\ c \in SentCalls(Call(c).alert_type)
    /\ \A d \in SentCalls(Call(c).alert_type) : ~EarlierSameType(c, d)

\* The table has an entry for a type exactly when an alert of the type was
\* sent, and the entry is the stamp of the most recent such send.
TableMatchesSends ==
    \A t \in AlertTypes :
        /\ last_alert_times[t] # None <=> SentCalls(t) # {}
        /\ \A c \in SentCalls(t) :
               MostRecentSent(c) =>
                   /\ last_alert_times[t] = Call(c).after
                   /\ Get(last_alert_times[t]) >= Call(c).delivered

\* A step changes the table only by returning from a successful delivery, and
\* an entry is never removed nor moved back.
TableStep ==
    /\ last_alert_times' # last_alert_times =>
           \E l \in Loops :
               /\ am_pc[l] = "update"
               /\ Len(am_log'[l]) = Len(am_log[l]) + 1
               /\ am_log'[l][Len(am_log'[l])].outcome = "sent"
               /\ \A t \in AlertTypes \ {Head(am_queue[l]).alert_type} :
                      last_alert_times'[t] = last_alert_times[t]
    /\ \A t \in AlertTypes :
           last_alert_times[t] # None =>
               /\ last_alert_times'[t] # None
               /\ Get(last_alert_times'[t]) >= Get(last_alert_times[t])

\* C32: the CooldownTable changes only on a successful delivery.  It has an
\* entry for an alert type if and only if an alert of that type was sent, the
\* entry is the time of the most recent such send, and per type the entry
\* never decreases.
C32_TableTracksSends == []TableMatchesSends /\ [][TableStep]_vars

\* A type sent twice: the entry is the stamp of the second send, later than
\* the first, and a failed call of another type left no entry.
C32_Witness ==
    \E c, d \in Calls :
        /\ EarlierSameType(c, d)
        /\ Call(c).outcome = "sent"
        /\ Call(d).outcome = "sent"
        /\ last_alert_times[Call(d).alert_type] = Call(d).after
        /\ Get(Call(d).after) > Get(Call(c).after)
        /\ \E e \in Calls :
               /\ Call(e).outcome = "failed"
               /\ last_alert_times[Call(e).alert_type] = None

(***************************************************************************)
(* The store with read faults: besides finding the file absent, empty or   *)
(* garbled, the open or the json.load of _load_data_file may raise on an   *)
(* intact file (no descriptor left, a permission change, an I/O error).    *)
(***************************************************************************)
\* _load_data_file, the except branch: the error is logged, [] is returned.
_load_data_file_Raised(file) == << >>

\* log_alert_data up to the call of _save_data_file, when the load raised:
\* the new records are appended to the empty list the load returned.
LogAlertLoadFail(l) ==
    /\ st_pc[l] = "created"
    /\ alert_data_file.kind = "json"
    /\ st_loaded' = [st_loaded EXCEPT ![l] = _load_data_file_Raised(alert_data_file)]
    /\ st_seen' = alert_data_file.kind
    /\ st_data' = [st_data EXCEPT ![l] =
                      _cleanup_old_data(_load_data_file_Raised(alert_data_file) \o st_new[l],
                                        max_records)]
    /\ st_overlap' = (st_overlap \/ \E m \in Loops \ {l} : st_pc[m] \in {"open", "write"})
    /\ st_readfail' = [st_readfail EXCEPT ![l] = TRUE]
    /\ st_pc' = [st_pc EXCEPT ![l] = "open"]
    /\ UNCHANGED << now, alert_data_file, st_new, st_result, st_created, st_ok,
                    st_failed, q_result, bwVars,
                    gateVars, classVars, loopVars, exportVars >>

StoreFaultNext ==
    \/ StoreNext
    \/ \E l \in Loops : LogAlertLoadFail(l)

StoreFaultSpec == StoreInit /\ [][StoreFaultNext]_vars

\* C33: an append only adds records.  After appends that ran one after the
\* other and all returned success, with no more records appended than the
\* retention cap, every record appended before is still in the dataset,
\* including when the load of an append failed.
C33_AppendOnlyAdds ==
    (StoreAllIdle /\ ~st_overlap /\ ~st_failed /\ BagCardinality(st_ok) <= max_records)
        => HoldsAll(_load_data_file(alert_data_file), st_ok)

(***************************************************************************)
(* The order of compute and detect within one network tick.                *)
(***************************************************************************)
\* The readings appended before the one of the current tick.
ReadingsBefore == SubSeq(bw_appended, 1, Len(bw_appended) - 1)

\* C36: when detect runs on a reading computed in the same tick, the ten
\* history entries it averages are the ten readings that preceded that
\* reading: the reading itself is not among them.
C36_SpikeAgainstEarlierReadings ==
    (bw_pc = "detect" /\ bw_last = "rate" /\ Len(bandwidth_history) >= 10)
        => LastTen(bandwidth_history) = LastTen(ReadingsBefore)

(***************************************************************************)
(* Alerts per breaching direction in one network tick.                     *)
(***************************************************************************)
SpikeKinds == {"Upload spike detected", "Download spike detected"}

\* The alerts of the tick that report the direction: its bandwidth alert and
\* the anomaly alerts built from a description of that direction's threshold.
BreachAlerts(alert_type, description) ==
    SelectSeq(cl_alerts,
              LAMBDA a : \/ a.alert_type = alert_type
                         \/ /\ a.alert_type = "Network Traffic Anomaly"
                            /\ a.message[1] = description)

\* C37: in a network tick each direction above the threshold is reported by
\* exactly one alert, its bandwidth alert, and 'Network Traffic Anomaly'
\* alerts are created for spike descriptions only.
C37_OneAlertPerBreach ==
    Classified("network") =>
        LET sample == Get(cl_sample)
            T      == Rat(BANDWIDTH_THRESHOLD_MBPS, 1)
            anomaly == AlertsOfType("Network Traffic Anomaly")
        IN  /\ Len(BreachAlerts("High Upload Bandwidth", "High upload traffic")) =
                   (IF RatLess(T, sample.upload_mbps) THEN 1 ELSE 0)
            /\ Len(BreachAlerts("High Download Bandwidth", "High download traffic")) =
                   (IF RatLess(T, sample.download_mbps) THEN 1 ELSE 0)
            /\ \A i \in DOMAIN anomaly : anomaly[i].message[1] \in SpikeKinds

(***************************************************************************)
(* Appends of one loop and range queries of a reader on the same dataset.  *)
(* The four log_*_data and the four get_*_history functions have one body  *)
(* each; the alert dataset stands for any of them.                         *)
(***************************************************************************)
StoreQueryNext ==
    \/ GetAlertHistory
    \/ StoreClassify("network")
    \/ LogAlertLoad("network")
    \/ SaveOpen("network")
    \/ SaveWrite("network")

StoreQuerySpec == StoreInit /\ [][StoreQueryNext]_vars

\* The timestamps of the records never go back along the sequence.
Chronological(records) ==
    \A i, j \in DOMAIN records :
        i < j => ~StrLess(records[j].timestamp, records[i].timestamp)

\* C38: the records a range query returns are in chronological order, the
\* most recently appended record last, after any number of appends, also
\* those that trigger the retention trim.
C38_QueryChronological ==
    q_result # None => Chronological(Get(q_result).records)

(***************************************************************************)
(* The three loops on the one NetworkMonitor object: the network loop's    *)
(* compute and detect, the system loop's get_system_stats and the device   *)
(* loop's ping_device calls, in any interleaving.                          *)
(***************************************************************************)
\* The counters as they stand: nothing moved since the last snapshot.
StillStep == [dt |-> 0, sent |-> 0, recv |-> 0]

\* The ping outcomes of the device ticks: an answer after 20 ms, or a timeout.
MonitorProbes ==
    { p \in Probes : \/ p.kind = "timeout"
                     \/ p.kind = "exit" /\ p.returncode = 0 /\ p.elapsed_ms = 20 }

\* A plausible slip: get_system_stats keeps its snapshot as the baseline.
BaselineAfterSystemStats_Kept(network_stats) == Some(network_stats)

\* get_system_stats puts the snapshot in the SystemStats it returns and
\* assigns to no attribute of the monitor.
BaselineAfterSystemStats(network_stats) == previous_network_io

\* A tick of the system loop up to its sample (main.py:182): get_system_stats
\* calls get_network_stats and returns the snapshot in the SystemStats.
SystemStatsTick ==
    /\ LET network_stats == get_network_stats(StillStep)
       IN  /\ cl_sample' = Some([kind |-> "system", network_io |-> network_stats])
           /\ cl_sample' # cl_sample
           /\ previous_network_io' = BaselineAfterSystemStats(network_stats)
    /\ UNCHANGED << os_counters, workload, bandwidth_history, bw_result, bw_last,
                    bw_calls, bw_pc, bw_anomalies, bw_appended, cl_alerts, now,
                    storeVars, gateVars, loopVars, exportVars >>

\* A tick of the device loop up to its sample (main.py:236-244): ping_device
\* for each monitored device.
DevicePingTick ==
    /\ \E probes \in [DOMAIN MONITORED_DEVICES -> MonitorProbes] :
         /\ cl_sample' = Some([kind |-> "device",
                               device_statuses |->
                                   [i \in DOMAIN MONITORED_DEVICES |->
                                       ping_device(MONITORED_DEVICES[i], probes[i])]])
         /\ cl_sample' # cl_sample
    /\ UNCHANGED << bwVars, cl_alerts, now, storeVars, gateVars, loopVars, exportVars >>

\* NetworkMonitor.__init__ with the counters the process finds.
MonitorInit ==
    /\ BwInit
    /\ os_counters = [bytes_sent |-> 2 * BytesPerMbit, bytes_recv |-> 2 * BytesPerMbit,
                      timestamp |-> 1]

MonitorNext ==
    \/ FreeSample
    \/ Detect
    \/ SystemStatsTick
    \/ DevicePingTick

MonitorSpec == MonitorInit /\ [][MonitorNext]_vars

\* A step that changes the baseline or the history is the compute step of the
\* network loop, and a tick of the system or device loop changes neither.
MonitorFrame ==
    /\ ( \/ previous_network_io' # previous_network_io
         \/ bandwidth_history' # bandwidth_history )
       => /\ bw_pc = "compute"
          /\ bw_pc' = "detect"
          /\ bw_calls' = bw_calls + 1
    /\ cl_sample' # cl_sample
       => UNCHANGED << previous_network_io, bandwidth_history >>

\* C39: the stored baseline snapshot and the bandwidth history are changed
\* only by the network loop's compute step; ticks of the system loop and of
\* the device loop, on the same monitor object, leave both unchanged.
C39_OnlyComputeWritesMonitor == [][MonitorFrame]_vars

\* Between the compute and the detect of a network tick that stored a
\* reading, the system loop took its snapshot of the counters; the baseline
\* and the history are as compute left them.
C39_Witness ==
    /\ bw_pc = "detect"
    /\ bw_last = "rate"
    /\ cl_sample # None
    /\ Get(cl_sample).kind = "system"
    /\ Get(cl_sample).network_io = os_counters
    /\ previous_network_io = Some(os_counters)
    /\ bandwidth_history = bw_appended
    /\ Len(bandwidth_history) = 2

(***************************************************************************)
(* Further claims about start, stop and the loop threads.                  *)
(***************************************************************************)
\* Some thread was started.
LoopsStarted == \E l \in DOMAIN lp_pc : lp_pc[l] # "unstarted"

\* A call of the body returned in this step that appends to a dataset
\* (log_*_data, log_alert_data), creates alerts (process_*_alerts) or sends
\* (send_all_alerts).
ActsInStep(l) ==
    /\ Len(lp_trace'[l]) = Len(lp_trace[l]) + 1
    /\ lp_trace'[l][Len(lp_trace'[l])] \in {"persist", "classify", "log_alerts", "dispatch"}

\* C35: after stop has returned no loop appends to a dataset, creates an
\* alert or attempts a send: a tick that was in progress when stop was called
\* has finished or does nothing further.
C35_NothingAfterStop ==
    [][ (LoopsStarted /\ ~running) => \A l \in Loops : ~ActsInStep(l) ]_vars

(***************************************************************************)
(* start and stop called again and again on one NetworkMonitoringSystem.   *)
(* Every start creates three new threads; self.threads keeps the old ones. *)
(* The body of a loop is taken as one step here.                           *)
(***************************************************************************)
\* Calls of start() in a run.
MaxStarts == 2

\* The threads of a run: the loop of a kind, started by the n-th start().
Threads == Loops \X (1..MaxStarts)

\* start(), the n-th time: returns if already running; sets the flag and
\* starts three new threads (main.py:87-89, 170-172).
StartCall(n) ==
    /\ ~running
    /\ \A l \in Loops : lp_pc[<< l, n >>] = "unstarted"
    /\ n > 1 => \A l \in Loops : lp_pc[<< l, n - 1 >>] # "unstarted"
    /\ running' = TRUE
    /\ lp_pc' = [t \in Threads |-> IF t[2] = n THEN StartPc(t[1]) ELSE lp_pc[t]]
    /\ UNCHANGED << lp_env, lp_trace, lp_alerts, lp_persisted, lp_attempted,
                    now, bwVars, storeVars, gateVars, classVars, exportVars >>

\* The body of the loop, from its first call to the sleep at its end.
TickBody(t) ==
    /\ lp_pc[t] = "acquire"
    /\ lp_pc' = [lp_pc EXCEPT ![t] = "sleep"]
    /\ lp_trace' = [lp_trace EXCEPT ![t] = Stages]
    /\ UNCHANGED << running, lp_env, lp_alerts, lp_persisted, lp_attempted,
                    now, bwVars, storeVars, gateVars, classVars, exportVars >>

RestartInit ==
    /\ now = 0
    /\ running = FALSE
    /\ lp_env = [t \in Threads |-> "ok"]
    /\ lp_pc = [t \in Threads |-> "unstarted"]
    /\ lp_trace = [t \in Threads |-> << >>]
    /\ lp_alerts = [t \in Threads |-> << >>]
    /\ lp_persisted = [t \in Threads |-> << >>]
    /\ lp_attempted = [t \in Threads |-> << >>]
    /\ BwIdle
    /\ StoreIdle
    /\ GateIdle
    /\ ClassIdle
    /\ ExportIdle

RestartNext ==
    \/ \E n \in 1..MaxStarts : StartCall(n)
    \/ Stop
    \/ \E t \in Threads : LoopTop(t)
    \/ \E t \in Threads : TickBody(t)
    \/ \E t \in Threads : Sleep(t)

RestartSpec == RestartInit /\ [][RestartNext]_vars

\* The threads of kind l that are inside the loop body.
TickingThreads(l) == { t \in Threads : t[1] = l /\ lp_pc[t] = "acquire" }

\* C34: across any sequence of start and stop calls at most one loop thread
\* of each kind is executing ticks at any time; a thread left sleeping by a
\* stop does not tick again alongside the thread of a later start.
C34_OneThreadPerKind ==
    \A l \in Loops : Cardinality(TickingThreads(l)) <= 1

====
